---- MODULE Spec2Model ----
(***************************************************************************)
(* Model of the Reddit-to-ComfyUI pipeline's two core components:          *)
(*   - the parameter analyzer  (src/script_analyzer.py), and               *)
(*   - the adaptive execution engine and its batch worker                  *)
(*     (src/synthwave_gui.py: run_comfyui_execution,                       *)
(*      execute_comfyui_script, validate_comfyui_script).                  *)
(* Python values are represented as follows.  Optional[str] is a sequence  *)
(* of length at most one (None is <<>>, the string s is <<s>>); a score is *)
(* a binary64 number written as an integer (see Float); a dict is a        *)
(* sequence of <<key, value>> pairs in insertion order.                    *)
(***************************************************************************)
EXTENDS Integers, Sequences, FiniteSets, TLC

VARIABLES
  \* script_configs/: script base name -> config file
  configs,
  \* SynthwaveGUI fields of the configuration tab
  selected_comfyui_script, main_prompt_var, neg_prompt_var, combo_values,
  \* the last call made to the analyzer API or to a handler of the GUI that
  \* the user triggers, with its arguments and what it returned
  ret,
  \* SynthwaveGUI fields of the execution panel: the prompt lists, the
  \* message queue read by process_queue, and the widgets
  generated_prompts, current_session_prompts, queue,
  start_execution_btn, stop_execution_btn, scan_progress, messagebox,
  \* the batch thread (comfyui_thread): its position in
  \* run_comfyui_execution, its locals, and a record of what it has done
  worker,
  \* the file of the selected script on disk
  script_file,
  \* batch threads that comfyui_thread no longer refers to and that are
  \* still running, oldest first
  orphans,
  \* the last line of the scan results text box (write_to_scan_results
  \* appends "[HH:MM:SS] text"; the text is kept, without its leading symbol)
  scan_results_textbox,
  \* execute_comfyui_script while it runs: for each batch thread (1 is
  \* comfyui_thread, the others are orphans) its current or last call, with
  \* its position pc and its locals
  calls,
  \* the names registered in sys.modules
  sys_modules,
  \* the bytecode file that __pycache__ holds for the selected script: None,
  \* or the mtime and size of the source it was compiled from and that source
  pycache,
  \* st_mtime of the selected script, in whole seconds
  script_mtime,
  \* the files of output/synthwave_generated, as [name, content] records
  output_dir,
  \* the scan panel: the scan button, the posts of the last completed scan,
  \* the number of scans started so far, and the scan and transformation
  \* threads that are running
  start_scan_btn, current_scan_results, scans_started, background

avars == <<configs, main_prompt_var, neg_prompt_var, combo_values, ret>>
\* what a call of execute_comfyui_script works on besides the GUI's fields
xvars == <<calls, sys_modules, pycache, script_mtime, output_dir>>
svars == <<start_scan_btn, current_scan_results, scans_started, background>>
evars == <<generated_prompts, current_session_prompts, queue,
           start_execution_btn, stop_execution_btn, scan_progress, messagebox,
           worker, script_file, orphans,
           scan_results_textbox, xvars, svars>>
vars == <<avars, selected_comfyui_script, evars>>

(***************************************************************************)
(* Python helpers                                                          *)
(***************************************************************************)
None == <<>>
Some(x) == <<x>>

\* Python truthiness of an Optional[str]: None and "" are falsy.
Truthy(o) == o # None /\ o[1] # ""

\* `sub in s` on str.
Contains(s, sub) ==
  \E i \in 1..(Len(s) - Len(sub) + 1) : SubSeq(s, i, i + Len(sub) - 1) = sub

Lower1(c) ==
  CASE c = "A" -> "a" [] c = "B" -> "b" [] c = "C" -> "c" [] c = "D" -> "d"
    [] c = "E" -> "e" [] c = "F" -> "f" [] c = "G" -> "g" [] c = "H" -> "h"
    [] c = "I" -> "i" [] c = "J" -> "j" [] c = "K" -> "k" [] c = "L" -> "l"
    [] c = "M" -> "m" [] c = "N" -> "n" [] c = "O" -> "o" [] c = "P" -> "p"
    [] c = "Q" -> "q" [] c = "R" -> "r" [] c = "S" -> "s" [] c = "T" -> "t"
    [] c = "U" -> "u" [] c = "V" -> "v" [] c = "W" -> "w" [] c = "X" -> "x"
    [] c = "Y" -> "y" [] c = "Z" -> "z"
    [] OTHER -> c

\* str.lower()
RECURSIVE Lower(_)
Lower(s) ==
  IF Len(s) = 0 THEN s
  ELSE IF Len(s) = 1 THEN Lower1(s)
  ELSE Lower(SubSeq(s, 1, Len(s) \div 2)) \o Lower(SubSeq(s, Len(s) \div 2 + 1, Len(s)))

\* str.lstrip('-')
RECURSIVE LstripDash(_)
LstripDash(s) ==
  IF Len(s) > 0 /\ SubSeq(s, 1, 1) = "-" THEN LstripDash(SubSeq(s, 2, Len(s)))
  ELSE s

\* str.replace('.py', '')
RECURSIVE ReplaceDotPy(_)
ReplaceDotPy(s) ==
  IF Len(s) < 3 THEN s
  ELSE IF SubSeq(s, 1, 3) = ".py" THEN ReplaceDotPy(SubSeq(s, 4, Len(s)))
  ELSE SubSeq(s, 1, 1) \o ReplaceDotPy(SubSeq(s, 2, Len(s)))

\* "; ".join(seq) and ", ".join(seq)
RECURSIVE Join(_, _)
Join(seq, sep) ==
  IF Len(seq) = 0 THEN ""
  ELSE IF Len(seq) = 1 THEN seq[1]
  ELSE seq[1] \o sep \o Join(Tail(seq), sep)

Range(seq) == {seq[k] : k \in 1..Len(seq)}

Min(a, b) == IF a < b THEN a ELSE b

IsSpace(c) == c \in {" ", "\n", "\t"}

\* dict: insertion-ordered sequence of <<key, value>>; d[k] = v overwrites in place.
DictKeys(d) == {d[i][1] : i \in 1..Len(d)}
DictGet(d, k) == d[CHOOSE i \in 1..Len(d) : d[i][1] = k][2]
DictSet(d, k, v) ==
  IF k \in DictKeys(d)
  THEN [i \in 1..Len(d) |-> IF d[i][1] = k THEN <<k, v>> ELSE d[i]]
  ELSE Append(d, <<k, v>>)

(***************************************************************************)
(* Parameter analyzer: src/script_analyzer.py                              *)
(*                                                                         *)
(* A script's source text is represented by the sequence of its            *)
(* parser.add_argument(...) calls, each a record                           *)
(*   [flag, form, text, help]                                              *)
(* where form says how the default is written: "none" (no default=),       *)
(* "bare" (an unquoted literal such as 768 or True), "quoted" ('..' or     *)
(* ".."), "triple" (a triple-quoted string); text is the literal's text.   *)
(* A Python value (the `default` field, typed Any) is None or a pair       *)
(* <<type, text>>.                                                         *)
(***************************************************************************)
PromptMapping(mp, np, w, h, st, sd) ==
  [main_prompt |-> mp, negative_prompt |-> np, width |-> w, height |-> h,
   steps |-> st, seed |-> sd]

\* PromptMapping(): every field defaults to None.
EmptyMapping == PromptMapping(None, None, None, None, None, None)

MappingFields == {"main_prompt", "negative_prompt", "width", "height", "steps", "seed"}

IsStr(v) == v # None /\ v[1] = "str"

\* The default regex matches only quoted literals; its first alternative
\* ['"][^'"]*['"] wins over the triple-quoted ones, so on a triple-quoted
\* literal it matches the two leading quotes, i.e. the empty string.
\* ast.literal_eval of the matched string literal gives a str.
ExtractDefault(decl) ==
  CASE decl.form = "quoted" -> <<"str", decl.text>>
    [] decl.form = "triple" -> <<"str", "">>
    [] OTHER -> None

\* isinstance chain: int, float, bool; otherwise the initial "str".
InferType(default) ==
  IF default = None THEN "str"
  ELSE CASE default[1] = "int" -> "int"
         [] default[1] = "bool" -> "int"
         [] default[1] = "float" -> "float"
         [] OTHER -> "str"

\* A score is a binary64 number.  Every value _score_argument computes lies
\* within a few steps of the binary64 grid of a multiple of 0.1 and is
\* written 16 k + d: the number d grid steps above (below, for d < 0) the
\* binary64 number nearest to k/10.  The order of these integers is the
\* order of the numbers they stand for.
Float(tenths) == 16 * tenths

\* The operands <<score, w>> of `score += w/10` in _score_argument at which
\* binary64 addition (round to nearest, ties to even) gives the number one
\* grid step above, or below, the binary64 number of the decimal sum; at
\* all the others it gives that number.
RoundedUp ==
  { <<32, 1>>, <<32, 4>>, <<64, 2>>, <<128, 4>>, <<143, 3>>, <<175, 1>>,
    <<175, 3>>, <<176, 1>>, <<176, 3>>, <<207, 1>>, <<208, 1>>, <<208, 4>>,
    <<209, 1>>, <<255, 1>>, <<255, 3>>, <<256, 1>>, <<256, 3>>, <<257, 1>>,
    <<257, 3>>, <<287, 1>>, <<288, 1>>, <<289, 1>>, <<319, 3>>, <<335, 2>>,
    <<336, 2>>, <<351, 1>>, <<351, 2>>, <<352, 1>> }

RoundedDown ==
  { <<96, 3>>, <<97, 2>>, <<97, 4>>, <<112, 1>>, <<112, 2>>, <<145, 2>>,
    <<224, 2>>, <<224, 4>>, <<225, 2>>, <<273, 3>>, <<289, 3>>, <<304, 3>>,
    <<305, 1>>, <<305, 2>>, <<305, 3>>, <<368, 3>>, <<369, 3>>, <<384, 3>> }

\* score += w/10
FloatAdd(score, w) ==
  score + Float(w) + (IF <<score, w>> \in RoundedUp THEN 1
                      ELSE IF <<score, w>> \in RoundedDown THEN -1 ELSE 0)

\* the `score += ...` statements that are executed, in order
RECURSIVE Accumulate(_, _)
Accumulate(score, weights) ==
  IF weights = <<>> THEN score
  ELSE Accumulate(FloatAdd(score, Head(weights)), Tail(weights))

\* The weights (in tenths) _score_argument adds, in the order of its
\* statements.
Signals(dest, default, help_text) ==
  LET d == Lower(dest)
      h == Lower(help_text)
      Weight(cond, w) == IF cond THEN <<w>> ELSE <<>>
  IN Weight(Contains(d, "text"), 4)
       \o Weight(Contains(d, "prompt"), 5)
       \o Weight(Contains(d, "positive"), 3)
       \o Weight(Contains(d, "negative"), 2)
       \o Weight(help_text # "" /\ Contains(h, "clip text encode"), 3)
       \o Weight(help_text # "" /\ Contains(h, "positive prompt"), 4)
       \o Weight(help_text # "" /\ Contains(h, "negative prompt"), 3)
       \o Weight(help_text # "" /\ Contains(h, "prompt"), 2)
       \o Weight(IsStr(default) /\ Len(default[2]) > 50, 3)
       \o Weight(IsStr(default) /\ Len(default[2]) = 0, 1)

\* _score_argument: min(score, 1.0)
ScoreArgument(dest, default, help_text) ==
  Min(Accumulate(Float(0), Signals(dest, default, help_text)), Float(10))

\* _parse_full_argument_call
ParseFullArgumentCall(decl) ==
  LET dest == LstripDash(decl.flag)
      default == ExtractDefault(decl)
  IN [name |-> decl.flag, dest |-> dest, default |-> default,
      help_text |-> decl.help, arg_type |-> InferType(default),
      score |-> ScoreArgument(dest, default, decl.help)]

\* _parse_arguments: one ArgumentInfo per call, in source order.
ParseArguments(content) ==
  [i \in 1..Len(content) |-> ParseFullArgumentCall(content[i])]

\* list.sort(key=score, reverse=True): stable, descending.
RECURSIVE SortByScore(_)
SortByScore(seq) ==
  IF Len(seq) <= 1 THEN seq
  ELSE LET rest == SortByScore(Tail(seq))
           x == seq[1]
           \* x goes before the first element with a strictly smaller score
           \* and before every equal-score element that followed it.
           k == Cardinality({i \in 1..Len(rest) : rest[i].score > x.score})
       IN SubSeq(rest, 1, k) \o <<x>> \o SubSeq(rest, k + 1, Len(rest))

IsPromptArg(arg) ==
  Contains(Lower(arg.dest), "text") \/ Contains(Lower(arg.dest), "prompt")

\* First pass: explicit names; no break, so the last match in the loop wins.
RECURSIVE ExplicitPass(_, _)
ExplicitPass(prompt_args, mapping) ==
  IF Len(prompt_args) = 0 THEN mapping
  ELSE LET arg == prompt_args[1]
           d == Lower(arg.dest)
           m == IF Contains(d, "main_prompt") \/ Contains(d, "positive_prompt")
                THEN [mapping EXCEPT !.main_prompt = Some(arg.dest)]
                ELSE IF Contains(d, "negative_prompt") \/ Contains(d, "neg_prompt")
                THEN [mapping EXCEPT !.negative_prompt = Some(arg.dest)]
                ELSE mapping
       IN ExplicitPass(Tail(prompt_args), m)

\* Mutant of ScorePass: the length of the default is not looked at.
ScorePassAnyDefault(prompt_args, mapping) ==
  IF ~Truthy(mapping.main_prompt) /\ Len(prompt_args) > 0
  THEN LET ok == {i \in 1..Len(prompt_args) : prompt_args[i].score > Float(3)}
       IN IF ok = {} THEN mapping
          ELSE LET i == CHOOSE j \in ok : \A l \in ok : j <= l
               IN [mapping EXCEPT !.main_prompt = Some(prompt_args[i].dest)]
  ELSE mapping

\* Second pass: first (highest-scoring) argument with a substantial default.
ScorePass(prompt_args, mapping) ==
  IF ~Truthy(mapping.main_prompt) /\ Len(prompt_args) > 0
  THEN LET ok == {i \in 1..Len(prompt_args) :
                    /\ prompt_args[i].score > Float(3)
                    /\ IsStr(prompt_args[i].default)
                    /\ Len(prompt_args[i].default[2]) > 20}
       IN IF ok = {} THEN mapping
          ELSE LET i == CHOOSE j \in ok : \A l \in ok : j <= l
               IN [mapping EXCEPT !.main_prompt = Some(prompt_args[i].dest)]
  ELSE mapping

\* Mutant of NegativePass: an empty default is not taken as a sign.
NegativePassByName(prompt_args, mapping) ==
  IF ~Truthy(mapping.negative_prompt) /\ Len(prompt_args) > 0
  THEN LET ok == {i \in 1..Len(prompt_args) :
                    /\ Some(prompt_args[i].dest) # mapping.main_prompt
                    /\ \/ Contains(Lower(prompt_args[i].dest), "negative")
                       \/ Contains(Lower(prompt_args[i].help_text), "negative")}
       IN IF ok = {} THEN mapping
          ELSE LET i == CHOOSE j \in ok : \A l \in ok : j <= l
               IN [mapping EXCEPT !.negative_prompt = Some(prompt_args[i].dest)]
  ELSE mapping

\* Third pass: first argument other than the main prompt that looks negative.
NegativePass(prompt_args, mapping) ==
  IF ~Truthy(mapping.negative_prompt) /\ Len(prompt_args) > 0
  THEN LET ok == {i \in 1..Len(prompt_args) :
                    /\ Some(prompt_args[i].dest) # mapping.main_prompt
                    /\ \/ Contains(Lower(prompt_args[i].dest), "negative")
                       \/ (IsStr(prompt_args[i].default)
                             /\ Len(prompt_args[i].default[2]) = 0)
                       \/ Contains(Lower(prompt_args[i].help_text), "negative")}
       IN IF ok = {} THEN mapping
          ELSE LET i == CHOOSE j \in ok : \A l \in ok : j <= l
               IN [mapping EXCEPT !.negative_prompt = Some(prompt_args[i].dest)]
  ELSE mapping

\* Last loop: width/height/steps/seed; no break, so the last match wins.
RECURSIVE CommonPass(_, _)
CommonPass(arguments, mapping) ==
  IF Len(arguments) = 0 THEN mapping
  ELSE LET arg == arguments[1]
           d == Lower(arg.dest)
           m == IF Contains(d, "width") /\ arg.arg_type \in {"int", "float"}
                THEN [mapping EXCEPT !.width = Some(arg.dest)]
                ELSE IF Contains(d, "height") /\ arg.arg_type \in {"int", "float"}
                THEN [mapping EXCEPT !.height = Some(arg.dest)]
                ELSE IF Contains(d, "steps") /\ arg.arg_type = "int"
                THEN [mapping EXCEPT !.steps = Some(arg.dest)]
                ELSE IF Contains(d, "seed") /\ arg.arg_type = "int"
                THEN [mapping EXCEPT !.seed = Some(arg.dest)]
                ELSE mapping
       IN CommonPass(Tail(arguments), m)

\* _suggest_prompt_mapping
SuggestPromptMapping(arguments) ==
  LET prompt_args == SortByScore(SelectSeq(arguments, IsPromptArg))
      m1 == ExplicitPass(prompt_args, EmptyMapping)
      m2 == ScorePass(prompt_args, m1)
      m3 == NegativePass(prompt_args, m2)
  IN CommonPass(arguments, m3)

\* analyze_script's try body.  A file is [kind |-> "missing"] (open raises
\* FileNotFoundError), [kind |-> "undecodable"] (read raises
\* UnicodeDecodeError) or [kind |-> "text", content |-> <<calls>>].
AnalyzeBody(file) ==
  IF file.kind = "text"
  THEN LET arguments == ParseArguments(file.content)
       IN [raised |-> FALSE, arguments |-> arguments,
           mapping |-> SuggestPromptMapping(arguments)]
  ELSE [raised |-> TRUE, arguments |-> <<>>, mapping |-> EmptyMapping]

\* Mutant of AnalyzeScript: the try/except is missing.
AnalyzeScriptNoHandler(file) == AnalyzeBody(file)

\* analyze_script: `except Exception` returns ([], PromptMapping()).
AnalyzeScript(file) ==
  LET r == AnalyzeBody(file)
  IN IF r.raised
     THEN [raised |-> FALSE, arguments |-> <<>>, mapping |-> EmptyMapping]
     ELSE r

(***************************************************************************)
(* The analyzer on the characters of a source text: the scan of            *)
(* _parse_arguments and the three regular expressions of                   *)
(* _parse_full_argument_call.  Positions are 1-based; 0 means no match.    *)
(***************************************************************************)
Char(s, i) == SubSeq(s, i, i)

Quotes == {"\"", "'"}

StartsAt(s, i, sub) ==
  i >= 1 /\ i + Len(sub) - 1 <= Len(s) /\ SubSeq(s, i, i + Len(sub) - 1) = sub

Least(S) == IF S = {} THEN 0 ELSE CHOOSE i \in S : \A j \in S : i <= j

\* the positions from pos on at which the literal sub occurs
Occurrences(s, sub, pos) == {i \in pos..(Len(s) - Len(sub) + 1) : StartsAt(s, i, sub)}

\* \s* from position i: the position of the first character that is no
\* whitespace (Len(s) + 1 at the end of the text)
SkipSpace(s, i) == Least({j \in i..(Len(s) + 1) : j = Len(s) + 1 \/ ~IsSpace(Char(s, j))})

\* the first quote character after position q, either one
NextQuote(s, q) == Least({r \in (q + 1)..Len(s) : Char(s, r) \in Quotes})

AddArgument == "parser.add_argument("

\* The inner while loop of _parse_arguments: the position at which
\* paren_count, 1 at the opening parenthesis, first is 0; every parenthesis
\* of the text counts, those inside string literals too.
ClosingParen(content, paren_pos) ==
  LET parens == {i \in (paren_pos + 1)..Len(content) : Char(content, i) \in {"(", ")"}}
      paren_count(j) ==
        1 + Cardinality({i \in parens : i <= j /\ Char(content, i) = "("})
          - Cardinality({i \in parens : i <= j /\ Char(content, i) = ")"})
  IN Least({j \in parens : paren_count(j) = 0})

\* The outer loop of _parse_arguments without the parsing of the calls: the
\* texts full_call it isolates, in order.  A call whose parentheses never
\* close ends the scan (pos = len(content)).
RECURSIVE FullCalls(_, _)
FullCalls(content, pos) ==
  LET start_pos == Least(Occurrences(content, AddArgument, pos))
      paren_pos == start_pos + Len(AddArgument) - 1
      i == ClosingParen(content, paren_pos)
  IN IF start_pos = 0 \/ i = 0 THEN <<>>
     ELSE <<SubSeq(content, start_pos, i)>> \o FullCalls(content, i + 1)

\* re.search(r'parser\.add_argument\(\s*["\']([^"\']+)["\']', full_call):
\* group 1, or None
ArgNameMatch(full_call) ==
  LET Open(p) == SkipSpace(full_call, p + Len(AddArgument))
      Matches(p) == /\ Open(p) <= Len(full_call)
                    /\ Char(full_call, Open(p)) \in Quotes
                    /\ NextQuote(full_call, Open(p)) > Open(p) + 1
      p == Least({x \in Occurrences(full_call, AddArgument, 1) : Matches(x)})
  IN IF p = 0 THEN None
     ELSE Some(SubSeq(full_call, Open(p) + 1, NextQuote(full_call, Open(p)) - 1))

\* The position after `keyword\s*=\s*` for the occurrence of keyword at p,
\* or 0 when no = follows.
AfterEquals(s, keyword, p) ==
  LET eq == SkipSpace(s, p + Len(keyword))
  IN IF eq <= Len(s) /\ Char(s, eq) = "=" THEN SkipSpace(s, eq + 1) ELSE 0

\* The end of the text the group of the default pattern matches at k:
\* ['"][^'"]*['"] is tried first and matches from a quote to the next quote
\* of either kind; the triple-quoted alternatives follow it.
DefaultGroupEnd(s, k) ==
  LET Triple(q) == IF StartsAt(s, k, q)
                   THEN Least(Occurrences(s, q, k + 3))
                   ELSE 0
  IN IF k = 0 \/ k > Len(s) THEN 0
     ELSE IF Char(s, k) \in Quotes /\ NextQuote(s, k) # 0 THEN NextQuote(s, k)
     ELSE IF Triple("'''") # 0 THEN Triple("'''") + 2
     ELSE IF Triple("\"\"\"") # 0 THEN Triple("\"\"\"") + 2
     ELSE 0

\* re.search(r'default\s*=\s*(...)', full_call, re.DOTALL): group 1, or None
DefaultMatch(full_call) ==
  LET Start(p) == AfterEquals(full_call, "default", p)
      p == Least({x \in Occurrences(full_call, "default", 1) :
                    DefaultGroupEnd(full_call, Start(x)) # 0})
  IN IF p = 0 THEN None
     ELSE Some(SubSeq(full_call, Start(p), DefaultGroupEnd(full_call, Start(p))))

\* re.search(r'help\s*=\s*["\']([^"\']*)["\']', full_call, re.DOTALL):
\* group 1, or None
HelpMatch(full_call) ==
  LET Start(p) == AfterEquals(full_call, "help", p)
      Matches(p) == /\ Start(p) # 0 /\ Start(p) <= Len(full_call)
                    /\ Char(full_call, Start(p)) \in Quotes
                    /\ NextQuote(full_call, Start(p)) # 0
      p == Least({x \in Occurrences(full_call, "help", 1) : Matches(x)})
  IN IF p = 0 THEN None
     ELSE Some(SubSeq(full_call, Start(p) + 1, NextQuote(full_call, Start(p)) - 1))

\* ast.literal_eval(default_str) with the except branch of lines 129-136.
\* default_str is what the default pattern matched: it starts and ends with
\* a quote or with three.  literal_eval gives the text between them, and
\* when it raises (the two quotes differ, or a line ends inside a literal
\* in single quotes) the except branch cuts the quotes off by hand.  (The
\* texts analysed hold no backslash.)
EvalDefault(default_str) ==
  LET n == Len(default_str)
      quoted3 == n >= 6 /\ (StartsAt(default_str, 1, "\"\"\"")
                              \/ StartsAt(default_str, 1, "'''"))
  IN <<"str", IF quoted3 THEN SubSeq(default_str, 4, n - 3)
              ELSE SubSeq(default_str, 2, n - 1)>>

\* _parse_full_argument_call on the text of a call: Some(ArgumentInfo), or
\* None when the first argument is no string literal
ParseCallText(full_call) ==
  LET arg_name == ArgNameMatch(full_call)
      default_match == DefaultMatch(full_call)
      help_match == HelpMatch(full_call)
      dest == LstripDash(arg_name[1])
      default == IF default_match = None THEN None ELSE EvalDefault(default_match[1])
      help_text == IF help_match = None THEN "" ELSE help_match[1]
  IN IF arg_name = None THEN None
     ELSE Some([name |-> arg_name[1], dest |-> dest, default |-> default,
                help_text |-> help_text, arg_type |-> InferType(default),
                score |-> ScoreArgument(dest, default, help_text)])

\* _parse_arguments on a source text
ParseText(content) ==
  LET full_calls == FullCalls(content, 1)
      parsed == [i \in 1..Len(full_calls) |-> ParseCallText(full_calls[i])]
      Reported(arg_info) == arg_info # None
  IN [i \in 1..Len(SelectSeq(parsed, Reported)) |-> SelectSeq(parsed, Reported)[i][1]]

(***************************************************************************)
(* Mapping persistence: script_configs/<script_name>.json                  *)
(*                                                                         *)
(* A config file is [kind |-> "absent"], [kind |-> "malformed"] (not       *)
(* JSON), [kind |-> "array"] (JSON, but not an object) or                  *)
(* [kind |-> "object", pairs |-> <<<<key, value>>, ...>>] with a JSON      *)
(* value <<"null">> or <<"string", s>>.                                    *)
(***************************************************************************)
\* Mutant of JsonEncode: writes str(value), so None becomes the text "None".
JsonEncodeStr(o) == IF o = None THEN <<"string", "None">> ELSE <<"string", o[1]>>

JsonEncode(o) == IF o = None THEN <<"null">> ELSE <<"string", o[1]>>
JsonDecode(v) == IF v[1] = "null" THEN None ELSE Some(v[2])

\* json.dump(mapping_dict): keys in the dict's insertion order.
JsonDump(mapping) ==
  [kind |-> "object",
   pairs |-> << <<"main_prompt", JsonEncode(mapping.main_prompt)>>,
                <<"negative_prompt", JsonEncode(mapping.negative_prompt)>>,
                <<"width", JsonEncode(mapping.width)>>,
                <<"height", JsonEncode(mapping.height)>>,
                <<"steps", JsonEncode(mapping.steps)>>,
                <<"seed", JsonEncode(mapping.seed)>> >>]

\* data.get(key): None when the key is missing.
JsonGet(pairs, key) ==
  IF key \in DictKeys(pairs) THEN JsonDecode(DictGet(pairs, key)) ELSE None

\* save_mapping: (over)writes the file of script_name and no other.
SaveMapping(store, script_name, mapping) ==
  [store EXCEPT ![script_name] = JsonDump(mapping)]

\* load_mapping's body after the exists() test: json.load raises on malformed
\* text, data.get raises AttributeError when the document is not an object.
LoadBody(file) ==
  IF file.kind = "object"
  THEN [raised |-> FALSE,
        value |-> Some(PromptMapping(JsonGet(file.pairs, "main_prompt"),
                                     JsonGet(file.pairs, "negative_prompt"),
                                     JsonGet(file.pairs, "width"),
                                     JsonGet(file.pairs, "height"),
                                     JsonGet(file.pairs, "steps"),
                                     JsonGet(file.pairs, "seed")))]
  ELSE [raised |-> TRUE, value |-> None]

\* Mutant of LoadMapping: the try/except around the parse is missing.
LoadMappingNoHandler(store, script_name) ==
  IF store[script_name].kind = "absent"
  THEN [raised |-> FALSE, value |-> None]
  ELSE LoadBody(store[script_name])

\* load_mapping: Optional[PromptMapping]; None is "not found".
LoadMapping(store, script_name) ==
  IF store[script_name].kind = "absent"
  THEN [raised |-> FALSE, value |-> None]
  ELSE LET r == LoadBody(store[script_name])
       IN IF r.raised THEN [raised |-> FALSE, value |-> None] ELSE r

\* The loop over kwargs of get_execution_args.
RECURSIVE MapKwargs(_, _, _)
MapKwargs(args, mapping, kwargs) ==
  IF Len(kwargs) = 0 THEN args
  ELSE LET key == kwargs[1][1]
           value == kwargs[1][2]
           a == IF key = "width" /\ Truthy(mapping.width)
                THEN DictSet(args, mapping.width[1], value)
                ELSE IF key = "height" /\ Truthy(mapping.height)
                THEN DictSet(args, mapping.height[1], value)
                ELSE IF key = "steps" /\ Truthy(mapping.steps)
                THEN DictSet(args, mapping.steps[1], value)
                ELSE IF key = "seed" /\ Truthy(mapping.seed)
                THEN DictSet(args, mapping.seed[1], value)
                ELSE DictSet(args, key, value)
       IN MapKwargs(a, mapping, Tail(kwargs))

RECURSIVE DictUpdate(_, _)
DictUpdate(d, other) ==
  IF Len(other) = 0 THEN d
  ELSE DictUpdate(DictSet(d, other[1][1], other[1][2]), Tail(other))

\* get_execution_args.  `if not mapping` is true only for None: a
\* PromptMapping instance is always truthy.
GetExecutionArgs(store, script_name, prompt_text, negative_prompt, kwargs) ==
  LET loaded == LoadMapping(store, script_name).value
  IN IF loaded = None
     THEN DictUpdate(<< <<"text4", <<"str", prompt_text>> >>,
                        <<"text5", <<"str", negative_prompt>> >> >>, kwargs)
     ELSE LET mapping == loaded[1]
              a1 == IF Truthy(mapping.main_prompt)
                    THEN DictSet(<<>>, mapping.main_prompt[1], <<"str", prompt_text>>)
                    ELSE <<>>
              a2 == IF Truthy(mapping.negative_prompt)
                    THEN DictSet(a1, mapping.negative_prompt[1],
                                 <<"str", negative_prompt>>)
                    ELSE a1
          IN MapKwargs(a2, mapping, kwargs)

(***************************************************************************)
(* The execution engine: validate_comfyui_script, execute_comfyui_script   *)
(***************************************************************************)
\* s[:n]
Prefix(s, n) == SubSeq(s, 1, Min(n, Len(s)))

\* str.strip()
RECURSIVE Strip(_)
Strip(s) ==
  IF Len(s) = 0 THEN s
  ELSE IF IsSpace(SubSeq(s, 1, 1)) THEN Strip(SubSeq(s, 2, Len(s)))
  ELSE IF IsSpace(SubSeq(s, Len(s), Len(s))) THEN Strip(SubSeq(s, 1, Len(s) - 1))
  ELSE s

\* Mutant of When: the item is listed whatever the condition.
WhenAlways(cond, x) == <<x>>

\* [x] if cond else []
When(cond, x) == IF cond THEN <<x>> ELSE <<>>

\* validate_comfyui_script: (is_valid, message).  A file that cannot be
\* decoded makes open/read raise, which the handler turns into a message.
ValidateComfyuiScript(file) ==
  IF ~file.exists
  THEN [is_valid |-> FALSE, message |-> "Script file does not exist"]
  ELSE IF file.kind # "text"
  THEN [is_valid |-> FALSE,
        message |-> "Error reading script: 'utf-8' codec can't decode byte"]
  ELSE
    LET content == file.content
        lower == Lower(content)
        has_main_function == Contains(content, "def main(")
        has_saveimage == Contains(content, "SaveImage") \/ Contains(lower, "saveimage")
        has_return_dict == Contains(content, "return dict(")
        has_comfyui_patterns ==
          \E pattern \in {"comfyui", "workflow", "queue_prompt", "get_value_at_index"} :
            Contains(lower, pattern)
        has_manager_usage == Contains(content, "if has_manager:")
        has_manager_init == Contains(content, "has_manager = False")
                              \/ Contains(content, "has_manager = True")
        custom_nodes_usage == Contains(content, "_custom_nodes_imported")
        custom_nodes_init == Contains(content, "_custom_nodes_imported = False")
                               \/ Contains(content, "_custom_nodes_imported = True")
        custom_path_usage == Contains(content, "_custom_path_added")
        custom_path_init == Contains(content, "_custom_path_added = False")
                              \/ Contains(content, "_custom_path_added = True")
        issues ==
          When(~has_main_function, "Missing 'def main(' function")
            \o When(~has_saveimage, "No SaveImage node detected")
            \o When(~has_return_dict, "Missing 'return dict(' statement")
            \o When(~has_comfyui_patterns, "No ComfyUI patterns detected")
        auto_fixable ==
          When(has_manager_usage /\ ~has_manager_init, "has_manager")
            \o When(custom_nodes_usage /\ ~custom_nodes_init, "_custom_nodes_imported")
            \o When(custom_path_usage /\ ~custom_path_init, "_custom_path_added")
        warnings ==
          When(Len(auto_fixable) > 0,
               "Missing variable initializations: " \o Join(auto_fixable, ", ")
                 \o " (will be auto-fixed)")
    IN IF Len(issues) > 0
       THEN [is_valid |-> FALSE, message |-> Join(issues, "; ")]
       ELSE [is_valid |-> TRUE,
             message |-> "Script appears compatible"
                           \o (IF Len(warnings) > 0
                               THEN " (warnings: " \o Join(warnings, "; ") \o ")"
                               ELSE "")]

\* Step 2 of execute_comfyui_script: the text of the fenced block under
\* "## ComfyUI Prompt", stripped, or the title when the file has no such
\* block (the pattern needs a non-empty block).
ExtractPrompt(prompt_file, title) ==
  IF prompt_file.block # None /\ Len(prompt_file.block[1]) > 0
  THEN Strip(prompt_file.block[1])
  ELSE title

\* Mutant of HasAttr: the attribute test always succeeds.
HasAttrAlways(file, name) == TRUE

\* hasattr(module, name) after exec_module
HasAttr(file, name) == name \in file.attrs

\* The three names the engine defines on the module when they are missing.
PatchNames == <<"has_manager", "_custom_nodes_imported", "_custom_path_added">>

\* One invocation of execute_comfyui_script, described by the return
\* statement it reached (value, line) and what it did on the way; log lists
\* the texts it passed to write_to_scan_results, and decision is the answer
\* to a yes/no question put to the user (the function puts none).
Invocation(value, line, stages, diagnostic) ==
  [value |-> value, line |-> line, stages |-> stages, diagnostic |-> diagnostic,
   called |-> FALSE, result |-> [kind |-> "none"], keywords |-> {},
   fixes_applied |-> <<>>, native |-> "not tried", fallback |-> "not tried",
   files_written |-> 0, log |-> <<>>, decision |-> "not asked"]

NoInvocation == Invocation(FALSE, 0, <<>>, "")

StagesToInvoking == <<"Validating", "Loading", "Patching", "Invoking">>
StagesToClassifying == StagesToInvoking \o <<"ClassifyingResult">>
StagesToSaving == StagesToClassifying \o <<"Saving">>

\* The status of section 4.2 that a return statement stands for: True after
\* a save strategy completed, True without a confirmed file, or False.
Status(inv) ==
  IF ~inv.value THEN "Failed"
  ELSE IF inv.line \in {1736, 1813} THEN "Succeeded"
  ELSE "SucceededNoArtifacts"

\* Mutant of FallbackOutcomes: a failed fallback makes the invocation fail.
FallbackOutcomesDemoting(base, count) ==
  { [base EXCEPT !.value = TRUE, !.line = 1813, !.fallback = "saved",
                 !.files_written = count] }
  \cup
  { [base EXCEPT !.value = FALSE, !.line = 1820, !.fallback = "failed",
                 !.diagnostic = "Fallback image saving failed"] }

\* Method 2, the fallback (lines 1745-1820): images are converted and
\* written one by one; an exception at image j leaves j - 1 files behind.
FallbackOutcomes(base, count) ==
  { [base EXCEPT !.value = TRUE, !.line = 1813, !.fallback = "saved",
                 !.files_written = count] }
  \cup
  { [base EXCEPT !.value = TRUE, !.line = 1820, !.fallback = "failed",
                 !.files_written = j - 1,
                 !.diagnostic = "Fallback image saving failed"] : j \in 1..count }
  \cup
  { [base EXCEPT !.value = TRUE, !.line = 1820, !.fallback = "failed",
                 !.diagnostic = "Fallback image saving failed"] }

\* Lines 1722-1732: the files SaveImage reports, one line each.
SavedFilesLog(count) ==
  <<"Images saved successfully via ComfyUI:">>
    \o [i \in 1..count |-> "   " \o ToString(i) \o ". image_" \o ToString(i)]

\* Step 6 for a dict with an 'images' key (lines 1676-1826).  Method 1 needs
\* a ComfyUI directory with comfy_extras; not finding one raises ImportError,
\* as does a failing import of SaveImage, and ImportError leads to the
\* fallback; any other exception of method 1 ends the invocation with True.
SaveOutcomes(base, count) ==
  LET saving == [base EXCEPT !.stages = StagesToSaving,
                             !.log = Append(@, "Saving " \o ToString(count)
                                                 \o " generated image(s)...")]
  IN { [saving EXCEPT !.value = TRUE, !.line = 1736, !.native = "saved",
                      !.files_written = count,
                      !.log = @ \o SavedFilesLog(count)] }
     \cup
     { [saving EXCEPT !.value = TRUE, !.line = 1826, !.native = "Exception",
                      !.diagnostic = "Image generation succeeded but saving failed"] }
     \cup
     FallbackOutcomes([saving EXCEPT !.native = "ImportError"], count)

\* Lines 1670-1671, written once main has returned.
ResultLog(result) ==
  <<"ComfyUI script executed successfully",
    "   Result type: <class '" \o result.type \o "'>">>

\* Mutant of ClassifyResult: a dict without images is treated as a failure.
ClassifyResultStrict(base, result) ==
  LET classified == [base EXCEPT !.stages = StagesToClassifying,
                                 !.result = result]
  IN IF result.kind = "dict" /\ "images" \in result.keys
     THEN SaveOutcomes(classified, result.images)
     ELSE { [classified EXCEPT !.value = FALSE, !.line = 1839,
               !.diagnostic = "Expected dict result but got: " \o result.type] }

\* Step 6: the classification of main's return value (lines 1674-1839).
ClassifyResult(base, result) ==
  LET classified == [base EXCEPT !.stages = StagesToClassifying,
                                 !.result = result,
                                 !.log = @ \o ResultLog(result)]
  IN IF result.kind = "dict"
     THEN IF "images" \in result.keys
          THEN SaveOutcomes(classified, result.images)
          ELSE { [classified EXCEPT !.value = TRUE, !.line = 1835,
                    !.diagnostic = "No 'images' key found in result"] }
     ELSE { [classified EXCEPT !.value = FALSE, !.line = 1839,
               !.diagnostic = "Expected dict result but got: " \o result.type] }

\* The except clauses of step 5 (lines 1841-1853).
ExceptionOutcome(base, exc) ==
  CASE exc = "AttributeError" ->
         [base EXCEPT !.value = FALSE, !.line = 1844,
                      !.diagnostic = "Script attribute error: " \o exc]
    [] exc = "TypeError" ->
         [base EXCEPT !.value = FALSE, !.line = 1849,
                      !.diagnostic = "Script type error: " \o exc]
    [] OTHER ->
         [base EXCEPT !.value = FALSE, !.line = 1853,
                      !.diagnostic = "Script execution failed: " \o exc]

(***************************************************************************)
(* Inputs of the execution engine                                          *)
(***************************************************************************)
MaxPrompts == 2
MaxImages == 2
MaxOrphans == 1
MaxQueue == 0

AllAttrs == {"main", "has_manager", "_custom_nodes_imported", "_custom_path_added"}

\* A script file with the module it makes when executed: whether
\* exec_module raises, the module's attributes, and the keywords main takes.
Script(content, exec, attrs, any_keyword, accepts) ==
  [exists |-> TRUE, kind |-> "text", content |-> content, exec |-> exec,
   attrs |-> attrs, any_keyword |-> any_keyword, accepts |-> accepts]

ExportHeader == "# ComfyUI workflow\nfrom nodes import SaveImage\n"
ExportMain == "def main(*func_args, **func_kwargs):\n    return dict(images=images)\n"

ScriptFiles ==
  { [exists |-> FALSE],
    [exists |-> TRUE, kind |-> "undecodable"],
    \* a SaveAsScript export
    Script(ExportHeader \o ExportMain, "ok", AllAttrs, TRUE, {}),
    \* an export with the known defect: has_manager is used, never set
    Script(ExportHeader \o "def load():\n    if has_manager:\n        pass\n"
             \o ExportMain,
           "ok", AllAttrs \ {"has_manager"}, TRUE, {}),
    \* an export that imports a package which is not installed
    Script(ExportHeader \o "import missing_package\n" \o ExportMain,
           "raises", {}, TRUE, {}),
    \* main takes two named parameters only
    Script(ExportHeader \o "def main(text4, text5):\n    return dict(images=images)\n",
           "ok", AllAttrs, FALSE, {"text4", "text5"}),
    \* no entry point
    Script(ExportHeader \o "def run():\n    return dict(images=images)\n",
           "ok", AllAttrs \ {"main"}, TRUE, {}),
    \* "def main(" only as a method: the text has it, the module has no main
    Script(ExportHeader
             \o "class Workflow:\n    def main(self):\n        return dict(images=images)\n",
           "ok", AllAttrs \ {"main"}, TRUE, {}),
    \* not a workflow script at all
    Script("print('hello')\n", "ok", {}, TRUE, {}) }

\* main(text4, text5) of ScriptFiles after an edit that keeps the file's
\* length: the second parameter is renamed.
Revised ==
  Script(ExportHeader \o "def main(text4, text6):\n    return dict(images=images)\n",
         "ok", AllAttrs, FALSE, {"text4", "text6"})

\* An export that refers to all three names and sets none of them.
Unset ==
  Script(ExportHeader
           \o "def load():\n    if has_manager:\n        pass\n"
           \o "    if not _custom_nodes_imported:\n        pass\n"
           \o "    if not _custom_path_added:\n        pass\n"
           \o ExportMain,
         "ok", {"main"}, TRUE, {})

\* The contents the selected script's file takes while calls are followed
\* step by step: main(text4, text5) and its revision, the exports with
\* has_manager or all three names unset, and the export whose import fails.
Revisions ==
  {file \in ScriptFiles : file.exists /\ file.kind = "text"
                            /\ (\/ file.accepts # {}
                                \/ file.exec = "raises"
                                \/ file.attrs = AllAttrs \ {"has_manager"})}
    \cup {Revised, Unset}

\* 'def main(' in content, for the sample files that can be read.
DefinesMain ==
  [file \in {f \in ScriptFiles : f.exists /\ f.kind = "text"} |->
     Contains(file.content, "def main(")]

\* validate_comfyui_script on every sample file (the function is pure).
Validation == [file \in ScriptFiles \cup Revisions |-> ValidateComfyuiScript(file)]

\* The prompt file of an item when it is read: deleted, without a prompt
\* block, or with one.
PromptFileSamples ==
  { [kind |-> "missing"],
    [kind |-> "text", block |-> None],
    [kind |-> "text", block |-> Some("\nneon cat, synthwave\n")] }

\* random.randint(1, 2**32 - 1)
SeedSamples == {"1", "4294967295"}

\* What main does once it runs: raise, or return a value.
ResultSamples ==
  { [kind |-> "raise", type |-> "AttributeError", entered |-> TRUE],
    [kind |-> "raise", type |-> "TypeError", entered |-> TRUE],
    [kind |-> "raise", type |-> "RuntimeError", entered |-> TRUE],
    [kind |-> "value", type |-> "NoneType"],
    [kind |-> "dict", type |-> "dict", keys |-> {"ui"}] }
  \cup
  { [kind |-> "dict", type |-> "dict", keys |-> {"images", "filename_prefix"},
     images |-> n, filename_prefix |-> "batch_001"] : n \in 0..MaxImages }

\* The k-th prompt of a scan session.
Prompt(k) == [title |-> "Design " \o ToString(k),
              file |-> "prompt_" \o ToString(k) \o ".md"]

PromptList(n) == [k \in 1..n |-> Prompt(k)]

\* module.main(**execution_args), line 1668: the attribute lookup, the
\* binding of the keywords to main's parameters, and then whatever the
\* script does; only the names of the keywords matter to the binding.
MainWith(file, keywords) ==
  IF "main" \notin file.attrs
  THEN {[kind |-> "raise", type |-> "AttributeError", entered |-> FALSE]}
  ELSE IF ~file.any_keyword /\ ~(keywords \subseteq file.accepts)
  THEN {[kind |-> "raise", type |-> "TypeError", entered |-> FALSE]}
  ELSE ResultSamples

CallMain(file, execution_args) == MainWith(file, DictKeys(execution_args))

\* execute_comfyui_script(prompt_data, script_name): the set of invocations
\* that the files, the random seed and the script's behaviour allow.
ExecuteComfyuiScript(file, store, selected, prompt_data, script_name) ==
  IF ~file.exists
  THEN {Invocation(FALSE, 1570, <<>>, "Script not found: " \o selected)}
  ELSE IF ~Validation[file].is_valid
  THEN {Invocation(FALSE, 1577, <<"Validating">>,
                   "Script validation failed: " \o Validation[file].message)}
  ELSE UNION {
    IF prompt_file.kind = "missing"
    THEN {Invocation(FALSE, 1857, <<"Validating">>,
                     "File not found: " \o prompt_data.file)}
    ELSE
      LET prompt_text == ExtractPrompt(prompt_file, prompt_data.title)
          execution_args ==
            GetExecutionArgs(store, script_name, prompt_text, "",
                             << <<"width", <<"int", "768">> >>,
                                <<"height", <<"int", "1024">> >>,
                                <<"steps", <<"int", "20">> >>,
                                <<"seed", <<"int", seed>> >> >>)
          loading == [Invocation(FALSE, 0, <<"Validating", "Loading">>, "")
                        EXCEPT !.keywords = DictKeys(execution_args),
                               !.log = <<"Executing ComfyUI script: " \o selected,
                                         "   Arguments: "
                                           \o ToString(Len(execution_args))
                                           \o " parameters">>]
      IN IF file.exec = "raises"
         THEN {ExceptionOutcome(loading, "ModuleNotFoundError")}
         ELSE
           LET Missing(name) == ~HasAttr(file, name)
               patched == [loading EXCEPT !.stages = StagesToInvoking,
                                          !.fixes_applied = SelectSeq(PatchNames, Missing)]
           IN IF ~HasAttr(file, "main")
              THEN {[patched EXCEPT !.line = 1664,
                       !.diagnostic = "Script does not have a 'main' function"]}
              ELSE UNION {
                     IF result.kind = "raise"
                     THEN {ExceptionOutcome([patched EXCEPT !.result = result,
                                                            !.called = result.entered],
                                            result.type)}
                     ELSE ClassifyResult([patched EXCEPT !.called = TRUE], result)
                     : result \in CallMain(file, execution_args) }
    : prompt_file \in PromptFileSamples, seed \in SeedSamples }

\* The batch thread: pc is its position in run_comfyui_execution, then its
\* locals; emitted lists the messages it has put on the queue, outcomes the
\* calls of execute_comfyui_script it has made, last the latest of them.
Thread(pc) ==
  [pc |-> pc, total_prompts |-> 0, script_name |-> "", batch |-> <<>>, i |-> 0,
   emitted |-> <<>>, outcomes |-> <<>>, last |-> NoInvocation]

NoThread == Thread("none")

\* The batch threads that can be alive together: comfyui_thread and the
\* orphans.
Threads == 1..(1 + MaxOrphans)

\* A call of execute_comfyui_script: id is its number among the calls of its
\* thread, pc its position, inv what it has done so far (Invocation, with
\* the names of execution_args in keywords), then its other locals: source is the file given to exec_module and unit the code
\* exec_module ran (both None before step 4), module the namespace of the module object (name ->
\* value), main_calls the number of times line 1668 called main, images the
\* length of result['images'], i the loop index of line 1757.
Call(id, pc, prompt_data, script_name) ==
  [id |-> id, pc |-> pc, prompt_data |-> prompt_data, script_name |-> script_name,
   inv |-> NoInvocation, source |-> None, unit |-> None, module |-> <<>>,
   main_calls |-> 0, images |-> 0, filename_prefix |-> "", i |-> 0,
   filepath |-> "", saved_files |-> <<>>]

NoCall == Call(0, "none", Prompt(1), "")

\* No call has been made, nothing was compiled or saved yet.
InitFiles ==
  /\ calls = [k \in Threads |-> NoCall]
  /\ sys_modules = {"__main__"}
  /\ pycache = None
  /\ script_mtime = 0
  /\ output_dir = {}
  /\ start_scan_btn = "normal"
  /\ current_scan_results = <<>>
  /\ scans_started = 0
  /\ background = <<>>

InitPanel ==
  /\ InitFiles
  /\ generated_prompts = <<>>
  /\ current_session_prompts = <<>>
  /\ queue = <<>>
  /\ start_execution_btn = "disabled"
  /\ stop_execution_btn = "disabled"
  /\ scan_progress = [value |-> 0, maximum |-> 100]
  /\ messagebox = ""
  /\ worker = NoThread
  /\ script_file = [exists |-> FALSE]
  /\ orphans = <<>>
  /\ scan_results_textbox = ""

(***************************************************************************)
(* Inputs of the analyzer and configuration-tab specifications             *)
(***************************************************************************)
MaxDecls == 2

LongText == "a retro synthwave sunset over a neon grid, vector art, bold"
NegText == "blurry, low quality, watermark"

DeclSamples ==
  { [flag |-> "--text4", form |-> "quoted", text |-> LongText,
     help |-> "CLIP Text Encode (Positive Prompt)"],
    [flag |-> "--text5", form |-> "quoted", text |-> "", help |-> ""],
    [flag |-> "--negative_prompt", form |-> "quoted", text |-> NegText,
     help |-> ""],
    [flag |-> "--width6", form |-> "bare", text |-> "768", help |-> ""] }

Contents == UNION {[1..k -> DeclSamples] : k \in 0..MaxDecls}

FileSamples ==
  {[kind |-> "missing"], [kind |-> "undecodable"]}
    \cup {[kind |-> "text", content |-> c] : c \in Contents}

\* analyze_script on every sample file (the function is pure).
Analysis == [file \in FileSamples |-> AnalyzeScript(file)]

\* The scripts of the configuration tab, and the base names the analyzer
\* API is called with.
Scripts == {"a.py"}
BaseNames == {ReplaceDotPy(sc) : sc \in Scripts} \cup {"b"}

\* A mapping onto the keywords of the stock export (the names of lines
\* 1608-1615 of synthwave_gui.py), as a config file can hold it.
SavedMapping ==
  PromptMapping(Some("text4"), Some("text5"), Some("width6"), Some("height7"),
                Some("steps13"), Some("seed12"))

MappingSamples ==
  { EmptyMapping,
    PromptMapping(Some("text4"), None, None, None, None, None),
    SavedMapping }

\* A config file written or damaged outside the program (a hand edit, a
\* truncated write, a deletion).
ExternalFiles ==
  { [kind |-> "absent"], [kind |-> "malformed"], [kind |-> "array"],
    [kind |-> "object",
     pairs |-> << <<"main_prompt", <<"string", "text4">> >>,
                  <<"width", <<"string", "width6">> >> >>] }

PromptSamples == {"a cat"}
NegativeSamples == {"", "low quality, blurry"}
KwargsSamples ==
  { << <<"width", <<"int", "768">> >>, <<"height", <<"int", "1024">> >>,
       <<"steps", <<"int", "20">> >>, <<"seed", <<"int", "12345">> >> >>,
    << <<"width", <<"int", "768">> >>, <<"cfg", <<"float", "7.5">> >> >> }

InitConfig ==
  /\ configs = [n \in BaseNames |-> [kind |-> "absent"]]
  /\ selected_comfyui_script \in Scripts
  /\ main_prompt_var = ""
  /\ neg_prompt_var = ""
  /\ combo_values = {}
  /\ ret = [op |-> "none"]
  /\ InitPanel

uivars == <<selected_comfyui_script, main_prompt_var, neg_prompt_var, combo_values>>

(***************************************************************************)
(* SpecAnalyzer: calls of the analyzer API (ComfyUIScriptAnalyzer)         *)
(***************************************************************************)
\* analyzer.analyze_script(script_path)
CallAnalyzeScript ==
  \E file \in FileSamples :
    LET r == Analysis[file]
    IN /\ ret' = [op |-> "analyze_script", file |-> file, raised |-> r.raised,
                  arguments |-> r.arguments, mapping |-> r.mapping]
       /\ UNCHANGED <<configs, uivars, evars>>

\* analyze_script followed by save_mapping of the suggested mapping under the
\* script's base name, as test_script_analysis and the import action do.
AnalyzeAndSave ==
  \E script \in Scripts, file \in FileSamples :
    LET r == Analysis[file]
    IN /\ configs' = SaveMapping(configs, ReplaceDotPy(script), r.mapping)
       /\ ret' = [op |-> "analyze_and_save", script_name |-> ReplaceDotPy(script),
                  mapping |-> r.mapping]
       /\ UNCHANGED <<uivars, evars>>

\* analyzer.save_mapping(script_name, mapping)
CallSaveMapping ==
  \E n \in BaseNames, m \in MappingSamples :
    /\ configs' = SaveMapping(configs, n, m)
    /\ ret' = [op |-> "save_mapping", script_name |-> n, mapping |-> m]
    /\ UNCHANGED <<uivars, evars>>

\* analyzer.load_mapping(script_name)
CallLoadMapping ==
  \E n \in BaseNames :
    LET r == LoadMapping(configs, n)
    IN /\ ret' = [op |-> "load_mapping", script_name |-> n,
                  raised |-> r.raised, value |-> r.value]
       /\ UNCHANGED <<configs, uivars, evars>>

\* analyzer.get_execution_args(script_name, prompt_text, negative_prompt, **kwargs)
CallGetExecutionArgs ==
  \E n \in BaseNames, p \in PromptSamples, np \in NegativeSamples,
     kw \in KwargsSamples :
    /\ ret' = [op |-> "get_execution_args", script_name |-> n,
               prompt_text |-> p, negative_prompt |-> np, kwargs |-> kw,
               value |-> GetExecutionArgs(configs, n, p, np, kw)]
    /\ UNCHANGED <<configs, uivars, evars>>

\* A config file changes outside the program.
ExternalEdit ==
  \E n \in BaseNames, f \in ExternalFiles :
    /\ configs' = [configs EXCEPT ![n] = f]
    /\ ret' = [op |-> "external_edit"]
    /\ UNCHANGED <<uivars, evars>>

NextAnalyzer ==
  \/ CallAnalyzeScript
  \/ AnalyzeAndSave
  \/ CallSaveMapping
  \/ CallLoadMapping
  \/ CallGetExecutionArgs
  \/ ExternalEdit

SpecAnalyzer == InitConfig /\ [][NextAnalyzer]_vars

(***************************************************************************)
(* SpecConfigTab: the configuration tab of the GUI                         *)
(***************************************************************************)
OrNone(o) == IF Truthy(o) THEN o[1] ELSE "None"

\* import_script.  The file is validated first, and when validation fails
\* the user is asked whether to import it anyway (lines 2516-2528; the
\* samples hold a script's declarations only, so the validation result is
\* an input here).  Once the file is copied the script becomes the selected
\* one and auto_detect_arguments_for_script analyses it, fills the two
\* combo boxes and saves the suggested mapping.  ret keeps the handler's
\* locals (arguments, mapping) and its return value.
ImportScript ==
  \/ \* validation failed and the user answered no
     /\ ret' = [op |-> "import_script", value |-> "cancelled"]
     /\ UNCHANGED <<configs, uivars, evars>>
  \/ \* validation passed, or the user answered yes
     \E script \in Scripts, file \in FileSamples :
    LET r == Analysis[file]
        text_args == {r.arguments[i].dest : i \in
                        {j \in 1..Len(r.arguments) :
                           Contains(Lower(r.arguments[j].dest), "text")}}
    IN /\ selected_comfyui_script' = script
       /\ combo_values' = text_args
       /\ main_prompt_var' = IF Truthy(r.mapping.main_prompt)
                             THEN r.mapping.main_prompt[1] ELSE main_prompt_var
       /\ neg_prompt_var' = IF Truthy(r.mapping.negative_prompt)
                            THEN r.mapping.negative_prompt[1] ELSE neg_prompt_var
       /\ configs' = SaveMapping(configs, ReplaceDotPy(script), r.mapping)
       /\ ret' = [op |-> "auto_detect_arguments_for_script", file |-> file,
                  arguments |-> r.arguments, mapping |-> r.mapping,
                  value |-> "Main: " \o OrNone(r.mapping.main_prompt)
                              \o ", Neg: " \o OrNone(r.mapping.negative_prompt)]
       /\ UNCHANGED evars

\* select_script: load_prompt_mapping shows the saved mapping, or clears the
\* two selections when there is none.
SelectScript ==
  \E script \in Scripts :
    LET mapping == LoadMapping(configs, ReplaceDotPy(script)).value
    IN /\ selected_comfyui_script' = script
       /\ main_prompt_var' = IF mapping # None /\ Truthy(mapping[1].main_prompt)
                             THEN mapping[1].main_prompt[1] ELSE ""
       /\ neg_prompt_var' = IF mapping # None /\ Truthy(mapping[1].negative_prompt)
                            THEN mapping[1].negative_prompt[1] ELSE ""
       /\ ret' = [op |-> "select_script"]
       /\ UNCHANGED <<configs, combo_values, evars>>

\* The user picks an entry of one of the two read-only combo boxes.
ChooseCombo ==
  \E v \in combo_values :
    /\ \/ main_prompt_var' = v /\ UNCHANGED neg_prompt_var
       \/ neg_prompt_var' = v /\ UNCHANGED main_prompt_var
    /\ ret' = [op |-> "choose"]
    /\ UNCHANGED <<configs, selected_comfyui_script, combo_values, evars>>

StrOrNone(s) == IF s = "" THEN None ELSE Some(s)

\* Mutant of SavePromptMapping: the record is the persisted mapping with the
\* two selections replaced, so its numeric fields are kept.
SavePromptMappingKeepNumeric ==
  /\ selected_comfyui_script # ""
  /\ LET script_name == ReplaceDotPy(selected_comfyui_script)
         saved == LoadMapping(configs, script_name).value
         kept(field) == IF saved = None THEN None ELSE saved[1][field]
         mapping == PromptMapping(StrOrNone(main_prompt_var),
                                  StrOrNone(neg_prompt_var),
                                  kept("width"), kept("height"),
                                  kept("steps"), kept("seed"))
     IN /\ configs' = SaveMapping(configs, script_name, mapping)
        /\ ret' = [op |-> "save_prompt_mapping", mapping |-> mapping,
                   replaced |-> configs[script_name]]
  /\ UNCHANGED <<uivars, evars>>

\* save_prompt_mapping: the "save" button of the configuration tab.  The
\* PromptMapping is built from the two selections, its other fields take
\* the dataclass defaults (None).  ret keeps the mapping that was saved and
\* the file that save_mapping overwrote.
SavePromptMapping ==
  /\ selected_comfyui_script # ""
  /\ LET script_name == ReplaceDotPy(selected_comfyui_script)
         mapping == PromptMapping(StrOrNone(main_prompt_var),
                                  StrOrNone(neg_prompt_var),
                                  None, None, None, None)
     IN /\ configs' = SaveMapping(configs, script_name, mapping)
        /\ ret' = [op |-> "save_prompt_mapping", mapping |-> mapping,
                   replaced |-> configs[script_name]]
  /\ UNCHANGED <<uivars, evars>>

NextConfigTab ==
  \/ ImportScript
  \/ SelectScript
  \/ ChooseCombo
  \/ SavePromptMapping
  \/ ExternalEdit

SpecConfigTab == InitConfig /\ [][NextConfigTab]_vars

\* script_configs/ with no file, and with the saved mapping of a script.
NoConfigs == [n \in BaseNames |-> [kind |-> "absent"]]
ConfigStates ==
  {NoConfigs} \cup {SaveMapping(NoConfigs, ReplaceDotPy(sc), SavedMapping) : sc \in Scripts}

\* execute_comfyui_script for every sample script file, config directory and
\* prompt (what the function can do depends on nothing else).
Executions ==
  [file \in ScriptFiles, store \in ConfigStates, selected \in Scripts,
   prompt_data \in {Prompt(k) : k \in 1..MaxPrompts} |->
     ExecuteComfyuiScript(file, store, selected, prompt_data, ReplaceDotPy(selected))]

(***************************************************************************)
(* Spec: batch execution of the generated prompts                          *)
(***************************************************************************)
\* The user starts batches; the stop button is not pressed and no scan or
\* transformation runs during a batch, so one batch thread runs at a time
\* (OneThread).  SpecSession below adds the stop button.
\* The last line refresh_prompts writes (lines 1456-1465).
RefreshedLine(count) ==
  IF count > 0
  THEN "ComfyUI execution enabled: " \o ToString(count) \o " prompts ready"
  ELSE "ComfyUI execution disabled: no prompts available"

\* Init is the window after a transformation produced n prompts and its
\* completion message was handled (refresh_prompts), with or without a saved
\* mapping for the selected script.
Init ==
  /\ configs \in ConfigStates
  /\ selected_comfyui_script \in Scripts
  /\ main_prompt_var = ""
  /\ neg_prompt_var = ""
  /\ combo_values = {}
  /\ ret = [op |-> "none"]
  /\ script_file \in ScriptFiles
  /\ \E n \in 0..MaxPrompts :
       /\ current_session_prompts = PromptList(n)
       /\ generated_prompts = PromptList(n)
       /\ start_execution_btn = IF n > 0 THEN "normal" ELSE "disabled"
       /\ scan_progress = IF n > 0 THEN [value |-> n, maximum |-> n]
                          ELSE [value |-> 0, maximum |-> 100]
       /\ scan_results_textbox = RefreshedLine(n)
  /\ stop_execution_btn = "disabled"
  /\ queue = <<>>
  /\ messagebox = ""
  /\ worker = NoThread
  /\ orphans = <<>>
  /\ InitFiles

fixed == <<configs, main_prompt_var, neg_prompt_var, combo_values,
           selected_comfyui_script, script_file, xvars, svars>>

ProgressMessage(i, total_prompts, prompt_data) ==
  [type |-> "comfyui_progress", current |-> i + 1, total |-> total_prompts,
   prompt_title |-> prompt_data.title]

ErrorMessage(i, prompt_data) ==
  [type |-> "error",
   error |-> "Failed to execute prompt " \o ToString(i + 1) \o ": "
               \o Prefix(prompt_data.title, 50) \o "..."]

CompleteMessage(total_prompts) ==
  [type |-> "comfyui_complete", total_processed |-> total_prompts]

\* self.queue.put(message) by the batch thread
Put(w, message) == [w EXCEPT !.emitted = Append(@, message)]

\* A thread that has been started and has not returned.
Alive(w) == w.pc \notin {"none", "done"}

\* start_comfyui_execution: the start button is pressed.  With no prompts
\* the handler only shows a warning.  comfyui_thread is bound to the new
\* thread; a thread it referred to keeps running.  The number of threads
\* running at once is capped at 1 + MaxOrphans, and the user presses the
\* button when at most MaxQueue messages wait to be handled.
StartComfyuiExecution ==
  /\ start_execution_btn = "normal"
  /\ generated_prompts # <<>>
  /\ Alive(worker) => Len(orphans) < MaxOrphans
  /\ Len(queue) <= MaxQueue
  /\ start_execution_btn' = "disabled"
  /\ stop_execution_btn' = "normal"
  /\ scan_progress' = [value |-> 0, maximum |-> Len(generated_prompts)]
  /\ worker' = Thread("total_prompts")
  /\ orphans' = IF Alive(worker) THEN Append(orphans, worker) ELSE orphans
  /\ ret' = [op |-> "start_comfyui_execution"]
  /\ UNCHANGED <<fixed, generated_prompts, current_session_prompts, queue,
                 messagebox, scan_results_textbox>>

\* process_queue takes the next message; handle_queue_message dispatches it
\* to update_comfyui_progress, handle_comfyui_complete (which ends with
\* refresh_prompts) or handle_error.
HandleQueueMessage ==
  /\ queue # <<>>
  /\ queue' = Tail(queue)
  /\ LET message == Head(queue)
     IN \/ /\ message.type = "comfyui_progress"
           /\ scan_progress' = [value |-> message.current, maximum |-> message.total]
           /\ scan_results_textbox' =
                "ComfyUI: " \o ToString(message.current) \o "/"
                  \o ToString(message.total) \o " - "
                  \o Prefix(message.prompt_title, 50) \o "..."
           /\ UNCHANGED <<generated_prompts, start_execution_btn,
                          stop_execution_btn, messagebox>>
        \/ /\ message.type = "comfyui_complete"
           /\ stop_execution_btn' = "disabled"
           /\ scan_progress' = [value |-> 100, maximum |-> 100]
           /\ generated_prompts' = current_session_prompts
           /\ start_execution_btn' = IF Len(current_session_prompts) > 0
                                     THEN "normal" ELSE "disabled"
           /\ scan_results_textbox' = RefreshedLine(Len(current_session_prompts))
           /\ UNCHANGED messagebox
        \/ /\ message.type = "error"
           /\ messagebox' = message.error
           /\ UNCHANGED <<generated_prompts, start_execution_btn,
                          stop_execution_btn, scan_progress, scan_results_textbox>>
  /\ UNCHANGED <<fixed, ret, orphans, current_session_prompts, worker>>

\* What the steps of run_comfyui_execution itself leave alone: the widgets,
\* the prompt lists and the other threads.
main_thread == <<generated_prompts, current_session_prompts, start_execution_btn,
                 stop_execution_btn, scan_progress, messagebox, ret, orphans>>

\* write_to_scan_results called on a thread other than the one that runs
\* the window: each of the calls either takes effect or raises, and the
\* function swallows what it raises (lines 1013-1032).  The text box
\* afterwards shows the last text that took effect.
WrittenOffThread(log) == {scan_results_textbox} \cup Range(log)

\* run_comfyui_execution, lines 1519-1520
WorkerTotalPrompts ==
  /\ worker.pc = "total_prompts"
  /\ worker' = [worker EXCEPT !.pc = "enumerate",
                              !.total_prompts = Len(generated_prompts),
                              !.script_name = ReplaceDotPy(selected_comfyui_script)]
  /\ UNCHANGED <<fixed, main_thread, queue, scan_results_textbox>>

\* line 1522: the loop binds the list generated_prompts refers to now
WorkerEnumerate ==
  /\ worker.pc = "enumerate"
  /\ worker' = [worker EXCEPT !.pc = "loop", !.batch = generated_prompts, !.i = 0]
  /\ UNCHANGED <<fixed, main_thread, queue, scan_results_textbox>>

\* lines 1522-1529: the next item and its progress message
WorkerProgress ==
  /\ worker.pc = "loop"
  /\ worker.i < Len(worker.batch)
  /\ LET message == ProgressMessage(worker.i, worker.total_prompts,
                                    worker.batch[worker.i + 1])
     IN /\ queue' = Append(queue, message)
        /\ worker' = Put([worker EXCEPT !.pc = "execute"], message)
  /\ UNCHANGED <<fixed, main_thread, scan_results_textbox>>

\* Mutant of Executed: the loop ends at the first failed item.
ExecutedBreak(w, inv) ==
  LET prompt_data == w.batch[w.i + 1]
      done == [w EXCEPT !.pc = "loop", !.last = inv,
                        !.i = IF inv.value THEN @ + 1 ELSE Len(w.batch),
                        !.outcomes = Append(@, [index |-> w.i + 1,
                                                title |-> prompt_data.title,
                                                status |-> Status(inv)])]
  IN IF inv.value THEN done ELSE Put(done, ErrorMessage(w.i, prompt_data))

\* The thread after execute_comfyui_script returned inv for the current
\* item: an error message is put when it returned False.
Executed(w, inv) ==
  LET prompt_data == w.batch[w.i + 1]
      done == [w EXCEPT !.pc = "loop", !.last = inv, !.i = @ + 1,
                        !.outcomes = Append(@, [index |-> w.i + 1,
                                                title |-> prompt_data.title,
                                                status |-> Status(inv)])]
  IN IF inv.value THEN done ELSE Put(done, ErrorMessage(w.i, prompt_data))

\* lines 1531-1544: execute_comfyui_script for the item, and an error
\* message when it returns False.  The function catches every Exception
\* itself, so the handler at line 1540 has nothing to catch.
WorkerExecute ==
  /\ worker.pc = "execute"
  /\ \E inv \in Executions[script_file, configs, selected_comfyui_script,
                              worker.batch[worker.i + 1]] :
       /\ worker' = Executed(worker, inv)
       /\ queue' = IF inv.value THEN queue
                   ELSE Append(queue, ErrorMessage(worker.i, worker.batch[worker.i + 1]))
       /\ scan_results_textbox' \in WrittenOffThread(inv.log)
  /\ UNCHANGED <<fixed, main_thread>>

\* lines 1546-1549: the completion message, after the loop
WorkerComplete ==
  /\ worker.pc = "loop"
  /\ worker.i = Len(worker.batch)
  /\ queue' = Append(queue, CompleteMessage(worker.total_prompts))
  /\ worker' = Put([worker EXCEPT !.pc = "done"], CompleteMessage(worker.total_prompts))
  /\ UNCHANGED <<fixed, main_thread, scan_results_textbox>>

WorkerStep ==
  \/ WorkerTotalPrompts
  \/ WorkerEnumerate
  \/ WorkerProgress
  \/ WorkerExecute
  \/ WorkerComplete

Next ==
  \/ StartComfyuiExecution
  \/ HandleQueueMessage
  \/ WorkerStep

Spec == Init /\ [][Next]_vars

\* The batch thread is scheduled and every call it makes returns.
SpecFair == Spec /\ WF_vars(WorkerStep)

\* In Spec a batch thread is started only when none is running.
OneThread == start_execution_btn = "normal" => worker.pc \in {"none", "done"}

(***************************************************************************)
(* SpecSession: the execution panel with its stop button                   *)
(***************************************************************************)
\* stop_comfyui_execution: the stop button is pressed.  The handler sets the
\* two buttons; the status label it would set is not part of the window
\* (create_progress_section is not called), and the handler does nothing
\* else.
StopComfyuiExecution ==
  /\ stop_execution_btn = "normal"
  /\ start_execution_btn' = "normal"
  /\ stop_execution_btn' = "disabled"
  /\ ret' = [op |-> "stop_comfyui_execution"]
  /\ UNCHANGED <<fixed, generated_prompts, current_session_prompts, queue,
                 scan_progress, messagebox, worker, orphans, scan_results_textbox>>

\* One step of run_comfyui_execution by the thread w: the thread after the
\* step, the messages the step puts on the queue and the texts it passes to
\* write_to_scan_results.
RunComfyuiExecution(w) ==
  CASE w.pc = "total_prompts" ->
         {[thread |-> [w EXCEPT !.pc = "enumerate",
                                !.total_prompts = Len(generated_prompts),
                                !.script_name = ReplaceDotPy(selected_comfyui_script)],
           put |-> <<>>, log |-> <<>>]}
    [] w.pc = "enumerate" ->
         {[thread |-> [w EXCEPT !.pc = "loop", !.batch = generated_prompts, !.i = 0],
           put |-> <<>>, log |-> <<>>]}
    [] w.pc = "loop" /\ w.i < Len(w.batch) ->
         LET message == ProgressMessage(w.i, w.total_prompts, w.batch[w.i + 1])
         IN {[thread |-> Put([w EXCEPT !.pc = "execute"], message),
              put |-> <<message>>, log |-> <<>>]}
    [] w.pc = "loop" /\ w.i = Len(w.batch) ->
         {[thread |-> Put([w EXCEPT !.pc = "done"], CompleteMessage(w.total_prompts)),
           put |-> <<CompleteMessage(w.total_prompts)>>, log |-> <<>>]}
    [] w.pc = "execute" ->
         {[thread |-> Executed(w, inv),
           put |-> IF inv.value THEN <<>>
                   ELSE <<ErrorMessage(w.i, w.batch[w.i + 1])>>,
           log |-> inv.log] :
            inv \in Executions[script_file, configs, selected_comfyui_script,
                               w.batch[w.i + 1]]}
    [] OTHER -> {}

\* s without its k-th element
Remove(seq, k) == SubSeq(seq, 1, k - 1) \o SubSeq(seq, k + 1, Len(seq))

\* A step of a batch thread that comfyui_thread no longer refers to; once
\* it has returned it is gone.
OrphanStep ==
  \E k \in 1..Len(orphans) :
    \E step \in RunComfyuiExecution(orphans[k]) :
      /\ orphans' = IF Alive(step.thread)
                    THEN [orphans EXCEPT ![k] = step.thread]
                    ELSE Remove(orphans, k)
      /\ queue' = queue \o step.put
      /\ scan_results_textbox' \in WrittenOffThread(step.log)
      /\ UNCHANGED <<fixed, generated_prompts, current_session_prompts,
                     start_execution_btn, stop_execution_btn, scan_progress,
                     messagebox, ret, worker>>

\* Scripts that every invocation rejects before it loads anything.
SessionScripts == {file \in ScriptFiles : ~Validation[file].is_valid}

\* A transformation has produced n > 0 prompts and its completion message
\* was handled.
InitSession ==
  /\ configs = NoConfigs
  /\ selected_comfyui_script \in Scripts
  /\ main_prompt_var = ""
  /\ neg_prompt_var = ""
  /\ combo_values = {}
  /\ ret = [op |-> "none"]
  /\ script_file \in SessionScripts
  /\ \E n \in 1..MaxPrompts :
       /\ current_session_prompts = PromptList(n)
       /\ generated_prompts = PromptList(n)
       /\ scan_progress = [value |-> n, maximum |-> n]
       /\ scan_results_textbox = RefreshedLine(n)
  /\ start_execution_btn = "normal"
  /\ stop_execution_btn = "disabled"
  /\ queue = <<>>
  /\ messagebox = ""
  /\ worker = NoThread
  /\ orphans = <<>>
  /\ InitFiles

NextSession ==
  \/ StartComfyuiExecution
  \/ StopComfyuiExecution
  \/ HandleQueueMessage
  \/ WorkerStep
  \/ OrphanStep

SpecSession == InitSession /\ [][NextSession]_vars

(***************************************************************************)
(* execute_comfyui_script step by step: SpecInvocation and SpecSavers      *)
(***************************************************************************)
MaxCalls == 2
MaxMtime == 1

\* int(time.time() * 1000) at line 1790
Timestamps == {"1700000000000", "1700000000001"}

\* Path(path).stem: the name without its last suffix
RECURSIVE Stem(_)
Stem(path) ==
  IF ~Contains(path, ".") THEN path
  ELSE IF SubSeq(path, Len(path), Len(path)) = "."
  THEN SubSeq(path, 1, Len(path) - 1)
  ELSE Stem(SubSeq(path, 1, Len(path) - 1))

\* f"{n:0{width}d}"
RECURSIVE Pad(_, _)
Pad(n, width) ==
  LET digits == ToString(n)
  IN IF Len(digits) >= width THEN digits
     ELSE "0" \o Pad(n, width - 1)

\* filename_prefix.replace('/', '_')
RECURSIVE ReplaceSlash(_)
ReplaceSlash(s) ==
  IF s = "" THEN ""
  ELSE (IF SubSeq(s, 1, 1) = "/" THEN "_" ELSE SubSeq(s, 1, 1))
         \o ReplaceSlash(SubSeq(s, 2, Len(s)))

\* Lines 1793 and 1800: the file name for image i (from 0) and a counter.
Filename(base_name, i, timestamp, counter) ==
  base_name \o "_" \o Pad(i + 1, 5) \o "_" \o timestamp
    \o (IF counter = 0 THEN "" ELSE "_" \o Pad(counter, 3)) \o ".png"

Names(dir) == {f.name : f \in dir}

\* Mutant of UnusedName: the name is taken without looking at the directory.
UnusedNameBlind(dir, base_name, i, timestamp, counter) ==
  Filename(base_name, i, timestamp, counter)

\* Lines 1794-1801: the first name, by counter, that no file of the
\* directory has.
RECURSIVE UnusedName(_, _, _, _, _)
UnusedName(dir, base_name, i, timestamp, counter) ==
  IF Filename(base_name, i, timestamp, counter) \in Names(dir)
  THEN UnusedName(dir, base_name, i, timestamp, counter + 1)
  ELSE Filename(base_name, i, timestamp, counter)

\* pil_img.save(filepath): the file is created, or replaced when it exists.
Save(dir, name, content) ==
  {f \in dir : f.name # name} \cup {[name |-> name, content |-> content]}

\* The test get_code makes of a bytecode file: the mtime and the size it
\* records against those of the source file.
BytecodeValid(file, mtime, pyc) ==
  pyc # None /\ pyc[1].mtime = mtime /\ pyc[1].size = Len(file.content)

\* SourceFileLoader.get_code: the bytecode file is used when the mtime and
\* the size it records are those of the source file; otherwise the source
\* is compiled.
GetCode(file, mtime, pyc) ==
  IF BytecodeValid(file, mtime, pyc) THEN pyc[1].unit ELSE file

\* Mutant of GetCode: the source file is always compiled.
GetCodeFresh(file, mtime, pyc) == file

\* The bytecode file after get_code: a compiled source is written to
\* __pycache__ when the directory can be written.
CacheBytecode(file, mtime, pyc) ==
  IF ~BytecodeValid(file, mtime, pyc)
  THEN {pyc, Some([mtime |-> mtime, size |-> Len(file.content), unit |-> file])}
  ELSE {pyc}

\* The namespace of the module object once exec_module has run unit.
ModuleOf(unit, module_name) ==
  [name \in unit.attrs \cup {"__name__"} |->
     CASE name = "__name__" -> module_name
       [] name = "main" -> "<function main>"
       [] name = "has_manager" -> "True"
       [] OTHER -> "False"]

\* Mutant of Patched: the three names are set whatever the module defines.
PatchedAlways(module) ==
  [name \in DOMAIN module \cup Range(PatchNames) |->
     IF name \in Range(PatchNames) THEN "False" ELSE module[name]]

\* Lines 1644-1656: a name the module lacks is set to False.
Patched(module) ==
  [name \in DOMAIN module \cup Range(PatchNames) |->
     IF name \in DOMAIN module THEN module[name] ELSE "False"]

\* the variables of the GUI that execute_comfyui_script does not refer to
gui == <<avars, generated_prompts, current_session_prompts, queue,
         start_execution_btn, stop_execution_btn, scan_progress, messagebox,
         worker, orphans, svars>>

\* Mutant of Return: after an exception of the script the call goes back to
\* line 1668.
ReturnOrRetry(c, inv) ==
  IF inv.line = 1853 /\ c.main_calls > 0
  THEN [c EXCEPT !.pc = "main", !.inv = [inv EXCEPT !.line = 0]]
  ELSE [c EXCEPT !.pc = "returned", !.inv = inv]

\* A return statement: the call is over, inv says how.
Return(c, inv) == [c EXCEPT !.pc = "returned", !.inv = inv]

\* line 1531 of run_comfyui_execution: thread k calls the function
EnterExecute(k) ==
  /\ calls[k].pc \in {"none", "returned"}
  /\ calls[k].id < MaxCalls
  /\ calls' = [calls EXCEPT ![k] =
                 Call(calls[k].id + 1, "step1", Prompt(calls[k].id + 1),
                      ReplaceDotPy(selected_comfyui_script))]
  /\ UNCHANGED <<gui, selected_comfyui_script, script_file, scan_results_textbox,
                 sys_modules, pycache, script_mtime, output_dir>>

\* Step 1, lines 1566-1579
Step1Validate(k) ==
  LET c == calls[k]
  IN /\ c.pc = "step1"
     /\ calls' = [calls EXCEPT ![k] =
          IF ~script_file.exists
          THEN Return(c, Invocation(FALSE, 1570, <<>>,
                                    "Script not found: " \o selected_comfyui_script))
          ELSE IF ~Validation[script_file].is_valid
          THEN Return(c, Invocation(FALSE, 1577, <<"Validating">>,
                                    "Script validation failed: "
                                      \o Validation[script_file].message))
          ELSE [c EXCEPT !.pc = "step2", !.inv.stages = <<"Validating">>]]
     /\ UNCHANGED <<gui, selected_comfyui_script, script_file, scan_results_textbox,
                    sys_modules, pycache, script_mtime, output_dir>>

\* Steps 2 and 3, lines 1581-1618
Step2Prepare(k) ==
  LET c == calls[k]
  IN /\ c.pc = "step2"
     /\ \E prompt_file \in PromptFileSamples, seed \in SeedSamples :
          IF prompt_file.kind = "missing"
          THEN /\ calls' = [calls EXCEPT ![k] =
                    Return(c, Invocation(FALSE, 1857, <<"Validating">>,
                                         "File not found: " \o c.prompt_data.file))]
               /\ UNCHANGED scan_results_textbox
          ELSE
            LET prompt_text == ExtractPrompt(prompt_file, c.prompt_data.title)
                execution_args ==
                  GetExecutionArgs(configs, c.script_name, prompt_text, "",
                                   << <<"width", <<"int", "768">> >>,
                                      <<"height", <<"int", "1024">> >>,
                                      <<"steps", <<"int", "20">> >>,
                                      <<"seed", <<"int", seed>> >> >>)
                log == <<"Executing ComfyUI script: " \o selected_comfyui_script,
                         "   Arguments: " \o ToString(Len(execution_args))
                           \o " parameters">>
            IN /\ calls' = [calls EXCEPT ![k] =
                    [c EXCEPT !.pc = "step4",
                              !.inv.keywords = DictKeys(execution_args),
                              !.inv.log = log]]
               /\ scan_results_textbox' \in WrittenOffThread(log)
     /\ UNCHANGED <<gui, selected_comfyui_script, script_file,
                    sys_modules, pycache, script_mtime, output_dir>>

\* Step 4 and the first statement of step 5, lines 1620-1641.  A source that
\* is gone or cannot be decoded, and a script that raises while it is
\* executed, end in the handler of line 1850.
Step4Load(k) ==
  LET c == calls[k]
      module_name == "comfyui_script_" \o Stem(selected_comfyui_script)
      loading == [c EXCEPT !.inv.stages = <<"Validating", "Loading">>,
                           !.source = Some(script_file)]
  IN /\ c.pc = "step4"
     /\ sys_modules' = sys_modules \ {module_name}
     /\ IF ~script_file.exists \/ script_file.kind # "text"
        THEN /\ calls' = [calls EXCEPT ![k] =
                  Return(loading,
                         ExceptionOutcome(loading.inv,
                                          IF script_file.exists THEN "SyntaxError"
                                          ELSE "FileNotFoundError"))]
             /\ UNCHANGED pycache
        ELSE
          LET unit == GetCode(script_file, script_mtime, pycache)
              loaded == [loading EXCEPT !.unit = Some(unit)]
          IN /\ pycache' \in CacheBytecode(script_file, script_mtime, pycache)
             /\ calls' = [calls EXCEPT ![k] =
                  IF unit.exec = "raises"
                  THEN Return(loaded, ExceptionOutcome(loaded.inv, "ModuleNotFoundError"))
                  ELSE [loaded EXCEPT !.pc = "patch",
                                      !.module = ModuleOf(unit, module_name)]]
     /\ UNCHANGED <<gui, selected_comfyui_script, script_file, scan_results_textbox,
                    script_mtime, output_dir>>

\* lines 1643-1659
Step5Patch(k) ==
  LET c == calls[k]
      Missing(name) == name \notin DOMAIN c.module
  IN /\ c.pc = "patch"
     /\ calls' = [calls EXCEPT ![k] =
          [c EXCEPT !.pc = "main",
                    !.module = Patched(c.module),
                    !.inv.fixes_applied = SelectSeq(PatchNames, Missing),
                    !.inv.stages = <<"Validating", "Loading", "Patching">>]]
     /\ UNCHANGED <<gui, selected_comfyui_script, script_file, scan_results_textbox,
                    sys_modules, pycache, script_mtime, output_dir>>

\* lines 1661-1668: main is looked up and called with the keywords
Step5Main(k) ==
  LET c == calls[k]
      invoking == [c EXCEPT !.inv.stages = StagesToInvoking]
  IN /\ c.pc = "main"
     /\ IF "main" \notin DOMAIN c.module
        THEN calls' = [calls EXCEPT ![k] =
               Return(invoking,
                      [invoking.inv EXCEPT !.line = 1664,
                         !.diagnostic = "Script does not have a 'main' function"])]
        ELSE \E result \in MainWith(c.unit[1], c.inv.keywords) :
               LET called == [invoking EXCEPT !.main_calls = @ + 1,
                                              !.inv.result = result]
               IN calls' = [calls EXCEPT ![k] =
                    IF result.kind = "raise"
                    THEN Return(called,
                                ExceptionOutcome([called.inv EXCEPT !.called = result.entered],
                                                 result.type))
                    ELSE [called EXCEPT !.pc = "step6", !.inv.called = TRUE]]
     /\ UNCHANGED <<gui, selected_comfyui_script, script_file, scan_results_textbox,
                    sys_modules, pycache, script_mtime, output_dir>>

\* Step 6, lines 1670-1683 and 1827-1839
Step6Classify(k) ==
  LET c == calls[k]
      result == c.inv.result
      classified == [c EXCEPT !.inv.stages = StagesToClassifying,
                              !.inv.log = @ \o ResultLog(result)]
  IN /\ c.pc = "step6"
     /\ IF result.kind = "dict" /\ "images" \in result.keys
        THEN LET saving == "Saving " \o ToString(result.images) \o " generated image(s)..."
             IN /\ calls' = [calls EXCEPT ![k] =
                     [classified EXCEPT !.pc = "method1",
                        !.images = result.images,
                        !.filename_prefix =
                           IF "filename_prefix" \in result.keys
                           THEN result.filename_prefix ELSE "synthwave_generated",
                        !.inv.log = Append(@, saving)]]
                /\ scan_results_textbox' \in WrittenOffThread(ResultLog(result) \o <<saving>>)
        ELSE /\ calls' = [calls EXCEPT ![k] =
                  Return(classified,
                         IF result.kind = "dict"
                         THEN [classified.inv EXCEPT !.value = TRUE, !.line = 1835,
                                 !.diagnostic = "No 'images' key found in result"]
                         ELSE [classified.inv EXCEPT !.value = FALSE, !.line = 1839,
                                 !.diagnostic = "Expected dict result but got: "
                                                  \o result.type])]
             /\ scan_results_textbox' \in WrittenOffThread(ResultLog(result))
     /\ UNCHANGED <<gui, selected_comfyui_script, script_file,
                    sys_modules, pycache, script_mtime, output_dir>>

\* Method 1, lines 1685-1742 and 1822-1826: SaveImage saves into ComfyUI's
\* own output directory, or is not found (ImportError), or raises.
Method1(k) ==
  LET c == calls[k]
      saving == [c EXCEPT !.inv.stages = StagesToSaving]
  IN /\ c.pc = "method1"
     /\ \/ /\ calls' = [calls EXCEPT ![k] =
                Return(saving,
                       [saving.inv EXCEPT !.value = TRUE, !.line = 1736,
                          !.native = "saved", !.files_written = c.images,
                          !.log = @ \o SavedFilesLog(c.images)])]
           /\ scan_results_textbox' \in WrittenOffThread(SavedFilesLog(c.images))
        \/ /\ calls' = [calls EXCEPT ![k] =
                Return(saving,
                       [saving.inv EXCEPT !.value = TRUE, !.line = 1826,
                          !.native = "Exception",
                          !.diagnostic = "Image generation succeeded but saving failed"])]
           /\ UNCHANGED scan_results_textbox
        \/ /\ calls' = [calls EXCEPT ![k] =
                [saving EXCEPT !.pc = "method2", !.inv.native = "ImportError"]]
           /\ UNCHANGED scan_results_textbox
     /\ UNCHANGED <<gui, selected_comfyui_script, script_file,
                    sys_modules, pycache, script_mtime, output_dir>>

\* The handler of line 1815: the fallback failed after n files.
FallbackFailed(c) ==
  Return(c, [c.inv EXCEPT !.value = TRUE, !.line = 1820, !.fallback = "failed",
                          !.files_written = Len(c.saved_files),
                          !.diagnostic = "Fallback image saving failed"])

\* Method 2, lines 1745-1754: the imports and the output directory
Method2Begin(k) ==
  LET c == calls[k]
  IN /\ c.pc = "method2"
     /\ \/ calls' = [calls EXCEPT ![k] = FallbackFailed(c)]
        \/ calls' = [calls EXCEPT ![k] = [c EXCEPT !.pc = "for", !.i = 0,
                                                   !.saved_files = <<>>]]
     /\ UNCHANGED <<gui, selected_comfyui_script, script_file, scan_results_textbox,
                    sys_modules, pycache, script_mtime, output_dir>>

\* lines 1757-1803 for one image: its conversion, then the name of its file
\* (the probes of the while loop are taken together); after the last image,
\* line 1813.
Method2Name(k) ==
  LET c == calls[k]
  IN /\ c.pc = "for"
     /\ IF c.i = c.images
        THEN calls' = [calls EXCEPT ![k] =
               Return(c, [c.inv EXCEPT !.value = TRUE, !.line = 1813,
                                       !.fallback = "saved",
                                       !.files_written = Len(c.saved_files)])]
        ELSE \/ calls' = [calls EXCEPT ![k] = FallbackFailed(c)]
             \/ \E timestamp \in Timestamps :
                  calls' = [calls EXCEPT ![k] =
                    [c EXCEPT !.pc = "save",
                              !.filepath = UnusedName(output_dir,
                                                      ReplaceSlash(c.filename_prefix),
                                                      c.i, timestamp, 0)]]
     /\ UNCHANGED <<gui, selected_comfyui_script, script_file, scan_results_textbox,
                    sys_modules, pycache, script_mtime, output_dir>>

\* lines 1806-1807: the image is written under the name found
Method2Save(k) ==
  LET c == calls[k]
  IN /\ c.pc = "save"
     /\ \/ /\ calls' = [calls EXCEPT ![k] = FallbackFailed(c)]
           /\ UNCHANGED output_dir
        \/ /\ output_dir' = Save(output_dir, c.filepath, <<k, c.id, c.i + 1>>)
           /\ calls' = [calls EXCEPT ![k] =
                [c EXCEPT !.pc = "for", !.i = @ + 1,
                          !.saved_files = Append(@, c.filepath)]]
     /\ UNCHANGED <<gui, selected_comfyui_script, script_file, scan_results_textbox,
                    sys_modules, pycache, script_mtime>>

ExecuteStep(k) ==
  \/ EnterExecute(k)
  \/ Step1Validate(k)
  \/ Step2Prepare(k)
  \/ Step4Load(k)
  \/ Step5Patch(k)
  \/ Step5Main(k)
  \/ Step6Classify(k)
  \/ Method1(k)
  \/ Method2Begin(k)
  \/ Method2Name(k)
  \/ Method2Save(k)

\* The file of the selected script gets another content: an edit in place,
\* or import_script copying a file of that name over it (copy2 keeps the
\* mtime of the file it copies).
ReplaceScript ==
  /\ \E file \in Revisions \ {script_file}, mtime \in 0..MaxMtime :
       /\ script_file' = file
       /\ script_mtime' = mtime
  /\ UNCHANGED <<gui, selected_comfyui_script, scan_results_textbox,
                 calls, sys_modules, pycache, output_dir>>

\* A batch of MaxCalls prompts is running: its thread has put the progress
\* message of the first item, and the message was handled.
InitBatch ==
  /\ configs = NoConfigs
  /\ selected_comfyui_script \in Scripts
  /\ main_prompt_var = ""
  /\ neg_prompt_var = ""
  /\ combo_values = {}
  /\ ret = [op |-> "start_comfyui_execution"]
  /\ current_session_prompts = PromptList(MaxCalls)
  /\ generated_prompts = PromptList(MaxCalls)
  /\ start_execution_btn = "disabled"
  /\ stop_execution_btn = "normal"
  /\ scan_progress = [value |-> 1, maximum |-> MaxCalls]
  /\ scan_results_textbox = "ComfyUI: 1/" \o ToString(MaxCalls) \o " - Design 1..."
  /\ queue = <<>>
  /\ messagebox = ""
  /\ worker = [Thread("execute") EXCEPT
                 !.total_prompts = MaxCalls,
                 !.script_name = ReplaceDotPy(selected_comfyui_script),
                 !.batch = PromptList(MaxCalls),
                 !.emitted = <<ProgressMessage(0, MaxCalls, Prompt(1))>>]
  /\ InitFiles

\* One batch thread makes its calls one after the other while the script's
\* file can be replaced.
InitInvocation ==
  /\ InitBatch
  /\ script_file \in Revisions
  /\ orphans = <<>>

NextInvocation ==
  \/ ExecuteStep(1)
  \/ ReplaceScript

SpecInvocation == InitInvocation /\ [][NextInvocation]_vars

\* A call that has found SaveImage unavailable for a result of n images.
AtMethod2(n) ==
  [Call(1, "method2", Prompt(1), "a") EXCEPT
     !.inv = [Invocation(FALSE, 0, StagesToSaving, "") EXCEPT
                !.called = TRUE,
                !.result = [kind |-> "dict", type |-> "dict",
                            keys |-> {"images", "filename_prefix"},
                            images |-> n, filename_prefix |-> "batch_001"],
                !.keywords = {"text4", "text5", "width", "height", "steps", "seed"},
                !.fixes_applied = PatchNames,
                !.native = "ImportError",
                !.log = <<"Executing ComfyUI script: a.py",
                          "   Arguments: 6 parameters">>
                          \o ResultLog([type |-> "dict"])
                          \o <<"Saving " \o ToString(n) \o " generated image(s)...">>],
     !.source = Some(Unset), !.unit = Some(Unset),
     !.module = Patched(ModuleOf(Unset, "comfyui_script_a")),
     !.main_calls = 1, !.images = n, !.filename_prefix = "batch_001"]

\* The batch thread and an orphan (a batch that was stopped and started
\* again) have both come to the fallback with the images of their item.
InitSavers ==
  /\ configs = NoConfigs
  /\ selected_comfyui_script = "a.py"
  /\ main_prompt_var = ""
  /\ neg_prompt_var = ""
  /\ combo_values = {}
  /\ ret = [op |-> "start_comfyui_execution"]
  /\ current_session_prompts = PromptList(MaxCalls)
  /\ generated_prompts = PromptList(MaxCalls)
  /\ start_execution_btn = "disabled"
  /\ stop_execution_btn = "normal"
  /\ scan_progress = [value |-> 1, maximum |-> MaxCalls]
  /\ scan_results_textbox = "ComfyUI: 1/" \o ToString(MaxCalls) \o " - Design 1..."
  /\ queue = <<>>
  /\ messagebox = ""
  /\ worker = [Thread("execute") EXCEPT
                 !.total_prompts = MaxCalls, !.script_name = "a",
                 !.batch = PromptList(MaxCalls),
                 !.emitted = <<ProgressMessage(0, MaxCalls, Prompt(1))>>]
  /\ orphans = <<worker>>
  /\ script_file = Unset
  /\ script_mtime = 0
  /\ sys_modules = {"__main__"}
  /\ pycache \in CacheBytecode(Unset, 0, None)
  /\ output_dir = {}
  /\ start_scan_btn = "normal"
  /\ current_scan_results = <<>>
  /\ scans_started = 0
  /\ background = <<>>
  /\ calls \in [Threads -> {AtMethod2(n) : n \in 0..MaxImages}]

NextSavers ==
  \E k \in Threads :
    \/ Method2Begin(k)
    \/ Method2Name(k)
    \/ Method2Save(k)

SpecSavers == InitSavers /\ [][NextSavers]_vars

(***************************************************************************)
(* SpecValidate: calls of validate_comfyui_script                          *)
(***************************************************************************)
\* The four components validate_comfyui_script requires of a text.
Markers == {"def main(", "SaveImage", "return dict(", "workflow"}

\* How a text uses one of the three names: not at all, in a condition
\* only, or in a condition after an assignment at module level.
Uses == {"absent", "referenced", "initialised"}

Initialisation(name) ==
  name \o (IF name = "has_manager" THEN " = True\n" ELSE " = False\n")

Reference(name) ==
  IF name = "has_manager" THEN "    if has_manager:\n        pass\n"
  ELSE "    if not " \o name \o ":\n        pass\n"

\* A script text with the given components, using each name as use says.
SourceText(markers, use) ==
  LET Part(Text(_)) ==
        Text(PatchNames[1]) \o Text(PatchNames[2]) \o Text(PatchNames[3])
      Inits(name) == IF use[name] = "initialised" THEN Initialisation(name) ELSE ""
      Refs(name) == IF use[name] = "absent" THEN "" ELSE Reference(name)
  IN (IF "workflow" \in markers THEN "# ComfyUI workflow\n" ELSE "# script\n")
       \o (IF "SaveImage" \in markers THEN "from nodes import SaveImage\n" ELSE "")
       \o Part(Inits)
       \o "def load():\n    pass\n"
       \o Part(Refs)
       \o (IF "def main(" \in markers THEN "def main(*func_args, **func_kwargs):\n"
           ELSE "def run():\n")
       \o (IF "return dict(" \in markers THEN "    return dict(images=images)\n"
           ELSE "    return images\n")

\* The files validate_comfyui_script is called on; markers and use say how
\* the text of a readable one was put together.
ValidationSamples ==
  { [exists |-> FALSE], [exists |-> TRUE, kind |-> "undecodable"] }
  \cup
  { [exists |-> TRUE, kind |-> "text", content |-> SourceText(markers, use),
     markers |-> markers, use |-> use]
    : markers \in SUBSET Markers, use \in [Range(PatchNames) -> Uses] }

\* validate_comfyui_script on every such file (the function is pure).
Validated == [file \in ValidationSamples |-> ValidateComfyuiScript(file)]

\* validate_comfyui_script(script_path), as import_script and
\* execute_comfyui_script call it
CallValidate ==
  /\ \E file \in ValidationSamples :
       ret' = [op |-> "validate_comfyui_script", file |-> file,
               value |-> Validated[file]]
  /\ UNCHANGED <<configs, uivars, evars>>

SpecValidate == InitConfig /\ [][CallValidate]_vars

(***************************************************************************)
(* SpecScan: scans, their transformation threads and refresh_prompts       *)
(***************************************************************************)
MaxScans == 2
MaxPosts == 2

\* The check boxes of the scan panel, as the window builds them.
auto_transform_var == TRUE
auto_execute_var == FALSE

\* The i-th post that scan number scan finds.
Post(scan, i) ==
  [id |-> "s" \o ToString(scan) \o "p" \o ToString(i),
   title |-> "Post " \o ToString(i) \o " of scan " \o ToString(scan),
   score |-> "1000"]

\* prompt_data as run_transform_all and create_mock_prompt build it
PromptData(post) ==
  [file |-> "poc_output/prompts/prompt_" \o post.id \o ".md",
   reddit_id |-> post.id, title |-> post.title, score |-> post.score]

\* what the scan panel and its threads never change
elsewhere == <<configs, uivars, stop_execution_btn, worker, orphans, script_file,
               xvars>>

\* A transformation thread before its first statement.
Transform == [kind |-> "transform", pc |-> "start", batch |-> <<>>, i |-> 0,
              successful_transforms |-> 0]

\* start_scan, lines 1051-1086
StartScan ==
  /\ start_scan_btn = "normal"
  /\ scans_started < MaxScans
  /\ start_scan_btn' = "disabled"
  /\ scan_results_textbox' = "Starting scan of r/memes (day)..."
  /\ current_scan_results' = <<>>
  /\ current_session_prompts' = <<>>
  /\ scans_started' = scans_started + 1
  /\ background' = Append(background, [kind |-> "scan", scan |-> scans_started + 1])
  /\ ret' = [op |-> "start_scan"]
  /\ UNCHANGED <<elsewhere, generated_prompts, queue, start_execution_btn,
                 scan_progress, messagebox>>

\* run_scan, lines 1096-1153: the posts found, or an error
RunScan(t) ==
  /\ background[t].kind = "scan"
  /\ \E message \in
        { [type |-> "scan_complete",
           results |-> [i \in 1..n |-> Post(background[t].scan, i)]] : n \in 0..MaxPosts }
        \cup { [type |-> "error", error |-> "Scan failed: ConnectionError"] } :
       queue' = Append(queue, message)
  /\ background' = Remove(background, t)
  /\ UNCHANGED <<elsewhere, ret, generated_prompts, current_session_prompts,
                 start_execution_btn, scan_progress, messagebox,
                 scan_results_textbox, start_scan_btn, current_scan_results,
                 scans_started>>

\* run_transform_all, lines 2753-2770: the health check, then the list
\* that current_scan_results refers to now is taken for the loop
TransformStart(t) ==
  /\ background[t].kind = "transform"
  /\ background[t].pc = "start"
  /\ \/ /\ queue' = Append(queue, [type |-> "transform_complete",
                                    total_processed |-> 0])
        /\ background' = Remove(background, t)
     \/ /\ background' = [background EXCEPT ![t].pc = "loop",
                                            ![t].batch = current_scan_results]
        /\ UNCHANGED queue
  /\ UNCHANGED <<elsewhere, ret, generated_prompts, current_session_prompts,
                 start_execution_btn, scan_progress, messagebox,
                 scan_results_textbox, start_scan_btn, current_scan_results,
                 scans_started>>

\* lines 2771-2826, one post: the progress and log messages, and on success
\* the prompt is appended to the list current_session_prompts refers to now
TransformPost(t) ==
  LET thread == background[t]
      post == thread.batch[thread.i + 1]
      progress == [type |-> "transform_progress", current |-> thread.i + 1,
                   total |-> Len(thread.batch), post_title |-> post.title]
      Log(text) == [type |-> "log_message", message |-> text]
  IN /\ thread.kind = "transform"
     /\ thread.pc = "loop"
     /\ thread.i < Len(thread.batch)
     /\ \/ /\ current_session_prompts' =
                Append(current_session_prompts, PromptData(post))
           /\ queue' = queue \o <<progress,
                                  Log("Generating prompt for: " \o Prefix(post.title, 40)
                                        \o "..."),
                                  Log("Generated prompt: prompt_" \o post.id)>>
           /\ background' = [background EXCEPT ![t].i = @ + 1,
                                               ![t].successful_transforms = @ + 1]
        \/ /\ UNCHANGED current_session_prompts
           /\ queue' = queue \o <<progress,
                                  Log("Generating prompt for: " \o Prefix(post.title, 40)
                                        \o "..."),
                                  Log("Failed to generate prompt: Unknown error")>>
           /\ background' = [background EXCEPT ![t].i = @ + 1]
     /\ UNCHANGED <<elsewhere, ret, generated_prompts,
                    start_execution_btn, scan_progress, messagebox,
                    scan_results_textbox, start_scan_btn, current_scan_results,
                    scans_started>>

\* lines 2828-2834, after the loop
TransformComplete(t) ==
  LET thread == background[t]
  IN /\ thread.kind = "transform"
     /\ thread.pc = "loop"
     /\ thread.i = Len(thread.batch)
     /\ queue' = Append(queue, [type |-> "transform_complete",
                                total_processed |-> thread.successful_transforms])
     /\ background' = Remove(background, t)
     /\ UNCHANGED <<elsewhere, ret, generated_prompts, current_session_prompts,
                    start_execution_btn, scan_progress, messagebox,
                    scan_results_textbox, start_scan_btn, current_scan_results,
                    scans_started>>

\* handle_queue_message for the messages of the scan and transformation
\* threads (lines 2669-2689): handle_scan_complete, update_transform_progress,
\* handle_log_message, handle_transform_complete with refresh_prompts, and
\* handle_error
HandleScanMessage ==
  /\ queue # <<>>
  /\ queue' = Tail(queue)
  /\ LET message == Head(queue)
     IN \/ /\ message.type = "scan_complete"
           /\ start_scan_btn' = "normal"
           /\ scan_progress' = [value |-> 100, maximum |-> 100]
           /\ current_scan_results' = message.results
           /\ scan_results_textbox' =
                IF message.results = <<>> THEN "Scan completed! Found 0 posts:"
                ELSE LET post == message.results[Len(message.results)]
                     IN "   [" \o post.score \o "] " \o Prefix(post.title, 60)
           /\ background' = IF auto_transform_var /\ message.results # <<>>
                            THEN Append(background, Transform)
                            ELSE background
           /\ UNCHANGED <<generated_prompts, start_execution_btn, messagebox>>
        \/ /\ message.type = "transform_progress"
           /\ scan_progress' = [value |-> message.current, maximum |-> message.total]
           /\ scan_results_textbox' =
                "Transforming: " \o ToString(message.current) \o "/"
                  \o ToString(message.total) \o " - "
                  \o Prefix(message.post_title, 50) \o "..."
           /\ UNCHANGED <<generated_prompts, start_execution_btn, messagebox,
                          start_scan_btn, current_scan_results, background>>
        \/ /\ message.type = "log_message"
           /\ scan_results_textbox' = message.message
           /\ UNCHANGED <<generated_prompts, start_execution_btn, messagebox,
                          scan_progress, start_scan_btn, current_scan_results,
                          background>>
        \/ /\ message.type = "transform_complete"
           /\ generated_prompts' = current_session_prompts
           /\ start_execution_btn' =
                IF Len(current_session_prompts) > 0 THEN "normal" ELSE "disabled"
           /\ scan_results_textbox' =
                IF auto_execute_var /\ message.total_processed > 0
                THEN "Auto-execution enabled, starting ComfyUI processing..."
                ELSE RefreshedLine(Len(current_session_prompts))
           /\ UNCHANGED <<messagebox, scan_progress, start_scan_btn,
                          current_scan_results, background>>
        \/ /\ message.type = "error"
           /\ messagebox' = message.error
           /\ UNCHANGED <<generated_prompts, start_execution_btn, scan_progress,
                          scan_results_textbox, start_scan_btn,
                          current_scan_results, background>>
  /\ UNCHANGED <<elsewhere, ret, current_session_prompts, scans_started>>

NextScan ==
  \/ StartScan
  \/ HandleScanMessage
  \/ \E t \in 1..Len(background) :
       \/ RunScan(t)
       \/ TransformStart(t)
       \/ TransformPost(t)
       \/ TransformComplete(t)

\* The window as it is built, with auto-transform on and auto-execute off.
SpecScan == InitConfig /\ [][NextScan]_vars

(***************************************************************************)
(* SpecParse: analyze_script on source texts                               *)
(*                                                                         *)
(* A text is written from a sequence of declarations [flag, form, text,    *)
(* help]: form is "quoted" (a literal in double quotes), "single" (in      *)
(* single quotes), "triple" (in triple double quotes), "bare" (an          *)
(* unquoted literal) or "none" (no default=); text is what stands between  *)
(* the quotes, or the bare literal.                                        *)
(***************************************************************************)
Text120 == "a retro synthwave sunset over a neon grid with palm trees and a chrome sports car, vector art, bold lines, flat colours,"

MultiLine == "a neon tiger (synthwave style),\nbold lines (vector art)"

Declarations ==
  { [flag |-> "--text4", form |-> "quoted", text |-> Text120,
     help |-> "CLIP Text Encode (Positive Prompt)"],
    [flag |-> "--text5", form |-> "quoted", text |-> "", help |-> ""],
    [flag |-> "--negative_prompt", form |-> "quoted", text |-> NegText, help |-> ""],
    [flag |-> "--negative_prompt_2", form |-> "single", text |-> NegText, help |-> ""],
    [flag |-> "--prompt", form |-> "triple", text |-> MultiLine, help |-> "the prompt"],
    [flag |-> "--caption_text", form |-> "quoted",
     text |-> "don't panic, vector art, bold", help |-> ""],
    [flag |-> "--text2", form |-> "quoted", text |-> "a retro sunset over a neon grid",
     help |-> "input text for node \"CLIP Text Encode (Positive Prompt)\" id 6"],
    [flag |-> "--label", form |-> "quoted", text |-> "smile :(", help |-> ""],
    [flag |-> "--width6", form |-> "bare", text |-> "768", help |-> "width (autogenerated)"],
    [flag |-> "--seed12", form |-> "bare", text |-> "42", help |-> ""],
    [flag |-> "--cfg_height", form |-> "bare", text |-> "7.5", help |-> ""],
    [flag |-> "--steps13", form |-> "none", text |-> "", help |-> "sampler steps"] }

\* The literal of a declaration as it is written.
Literal(decl) ==
  CASE decl.form = "quoted" -> "\"" \o decl.text \o "\""
    [] decl.form = "single" -> "'" \o decl.text \o "'"
    [] decl.form = "triple" -> "\"\"\"" \o decl.text \o "\"\"\""
    [] OTHER -> decl.text

\* One declaration in the layout of the exported workflow scripts
\* (flux_lora_nsfw_1024x1024.py, lines 271-311); a help text that holds a
\* double quote is written in single quotes, as the exporter does.
Declare(decl) ==
  "parser.add_argument(\n    \"" \o decl.flag \o "\",\n"
    \o (IF decl.form = "none" THEN "" ELSE "    default=" \o Literal(decl) \o ",\n")
    \o (IF decl.help = "" THEN ""
        ELSE IF Contains(decl.help, "\"") THEN "    help='" \o decl.help \o "',\n"
        ELSE "    help=\"" \o decl.help \o "\",\n")
    \o ")"

RECURSIVE Concat(_)
Concat(texts) == IF texts = <<>> THEN "" ELSE Head(texts) \o "\n" \o Concat(Tail(texts))

\* The source text with the given declarations.
Source(decls) ==
  "import argparse\nparser = argparse.ArgumentParser()\n"
    \o Concat([i \in 1..Len(decls) |-> Declare(decls[i])])
    \o "args = parser.parse_args()\n"

Sources == UNION {[1..k -> Declarations] : k \in 0..MaxDecls}

\* analyze_script on the text of every such script (the function is pure),
\* with the texts the scan isolated.
Parsed ==
  { LET content == Source(decls)
        arguments == ParseText(content)
    IN [decls |-> decls, content |-> content,
        full_calls |-> FullCalls(content, 1), arguments |-> arguments,
        mapping |-> SuggestPromptMapping(arguments)]
    : decls \in Sources }

\* analyzer.analyze_script(script_path) on a readable file
AnalyzeText ==
  /\ \E r \in Parsed :
       ret' = [op |-> "analyze_script", decls |-> r.decls, content |-> r.content,
               full_calls |-> r.full_calls, arguments |-> r.arguments,
               mapping |-> r.mapping]
  /\ UNCHANGED <<configs, uivars, evars>>

SpecParse == InitConfig /\ [][AnalyzeText]_vars

(***************************************************************************)
(* SpecScore: calls of _score_argument                                     *)
(***************************************************************************)
DestSamples ==
  {"text4", "prompt", "positive_prompt", "negative_text", "Negative_Prompt", "width6"}

HelpSamples ==
  {"", "CLIP Text Encode (Positive Prompt)", "CLIP Text Encode (Negative Prompt)",
   "the prompt", "negative prompt", "sampler steps"}

DefaultSamples ==
  {None, <<"str", "">>, <<"str", NegText>>, <<"str", Text120>>, <<"int", "768">>}

\* _score_argument on every sample (the function is pure)
Scored ==
  { [dest |-> dest, default |-> default, help_text |-> help_text,
     value |-> ScoreArgument(dest, default, help_text)]
    : dest \in DestSamples, default \in DefaultSamples, help_text \in HelpSamples }

\* self._score_argument(dest, default, help_text)
CallScoreArgument ==
  /\ \E r \in Scored :
       ret' = [op |-> "_score_argument", dest |-> r.dest, default |-> r.default,
               help_text |-> r.help_text, value |-> r.value]
  /\ UNCHANGED <<configs, uivars, evars>>

SpecScore == InitConfig /\ [][CallScoreArgument]_vars

(***************************************************************************)
(* Properties                                                              *)
(***************************************************************************)
IsComplete(message) == message.type = "comfyui_complete"
IsError(message) == message.type = "error"
IsFailed(outcome) == outcome.status = "Failed"

\* C1: a batch thread emits one completion event and no more, and that
\* event reports a succeeded count and a failed count whose sum is the
\* number of prompts of the batch.
C1_CompletionReportsCounts ==
  /\ Len(SelectSeq(worker.emitted, IsComplete)) <= 1
  /\ \A k \in 1..Len(worker.emitted) :
       IsComplete(worker.emitted[k]) =>
         /\ {"succeeded", "failed"} \subseteq DOMAIN worker.emitted[k]
         /\ worker.emitted[k].succeeded + worker.emitted[k].failed
              = Len(worker.batch)

\* What the code does meet: every batch thread eventually puts exactly one
\* completion message on the queue, as its last message; the message carries
\* total_processed, the length of the prompt list the thread read when it
\* started, and nothing else.
CompletionEvent ==
  /\ [](/\ Len(SelectSeq(worker.emitted, IsComplete))
             = IF worker.pc = "done" THEN 1 ELSE 0
        /\ worker.pc = "done" =>
             worker.emitted[Len(worker.emitted)]
               = [type |-> "comfyui_complete",
                  total_processed |-> worker.total_prompts])
  /\ [](worker.pc = "total_prompts" => <>(worker.pc = "done"))

\* A batch of at least two prompts has completed with a failed and a
\* succeeded item.
CompletionEventWitness ==
  /\ worker.pc = "done"
  /\ worker.total_prompts >= 2
  /\ Len(worker.outcomes) = worker.total_prompts
  /\ \E k \in 1..Len(worker.outcomes) : IsFailed(worker.outcomes[k])
  /\ \E k \in 1..Len(worker.outcomes) : ~IsFailed(worker.outcomes[k])
  /\ IsComplete(worker.emitted[Len(worker.emitted)])

\* C2: a failed invocation does not end the loop: the items of the list the
\* loop iterates are invoked once each, in order, whatever the earlier
\* outcomes, and the error messages on the queue are exactly those of the
\* failed items, in order.
C2_BatchContinues ==
  LET failed == SelectSeq(worker.outcomes, IsFailed)
      errors == SelectSeq(worker.emitted, IsError)
  IN /\ Len(worker.outcomes) <= Len(worker.batch)
     /\ \A k \in 1..Len(worker.outcomes) :
          /\ worker.outcomes[k].index = k
          /\ worker.outcomes[k].title = worker.batch[k].title
     /\ worker.pc = "done" => Len(worker.outcomes) = Len(worker.batch)
     /\ Len(errors) = Len(failed)
     /\ \A k \in 1..Len(failed) :
          errors[k] = ErrorMessage(failed[k].index - 1, failed[k])

\* A batch completed whose first item failed because main raised and whose
\* second item succeeded.
C2_Witness ==
  /\ worker.pc = "done"
  /\ Len(worker.outcomes) >= 2
  /\ worker.outcomes[1].status = "Failed"
  /\ worker.outcomes[2].status = "Succeeded"
  /\ worker.last.value
  /\ Len(SelectSeq(worker.emitted, IsError)) = 1

\* Whether main returned a dict, and one with an 'images' key.
ReturnedDict(inv) == inv.result.kind = "dict"
ReturnedImages(inv) == ReturnedDict(inv) /\ "images" \in inv.result.keys


\* C3: once main has returned a dict with an 'images' key, the invocation
\* does not end Failed, whatever happens to the two save strategies.
C3_SaveNeverFails ==
  ReturnedImages(worker.last) =>
    Status(worker.last) \in {"Succeeded", "SucceededNoArtifacts"}

\* Both strategies failed for a result with images: the native one raised
\* ImportError and the fallback raised after writing a first file.
C3_Witness ==
  /\ ReturnedImages(worker.last)
  /\ worker.last.native = "ImportError"
  /\ worker.last.fallback = "failed"
  /\ worker.last.files_written = 1
  /\ Status(worker.last) = "SucceededNoArtifacts"

\* C4: when main returns, a dict with 'images' goes on to Saving and nothing
\* else does; a dict without 'images' ends SucceededNoArtifacts with no file
\* written; anything that is not a dict ends Failed.
C4_Classification ==
  (worker.last.called /\ worker.last.result.kind # "raise") =>
    /\ ("Saving" \in Range(worker.last.stages)) <=> ReturnedImages(worker.last)
    /\ "ClassifyingResult" \in Range(worker.last.stages)
    /\ (ReturnedDict(worker.last) /\ ~ReturnedImages(worker.last)) =>
         /\ Status(worker.last) = "SucceededNoArtifacts"
         /\ worker.last.files_written = 0
    /\ ~ReturnedDict(worker.last) =>
         /\ Status(worker.last) = "Failed"
         /\ worker.last.files_written = 0

\* main returned a dict without an 'images' key.
C4_Witness ==
  /\ worker.last.called
  /\ ReturnedDict(worker.last)
  /\ ~ReturnedImages(worker.last)
  /\ worker.last.line = 1835

\* The diagnostic names the missing entry point.
MentionsMissingMain(diagnostic) ==
  \/ Contains(diagnostic, "Missing 'def main(' function")
  \/ Contains(diagnostic, "Script does not have a 'main' function")

\* C5: for a script whose text has no 'def main(', and for a loaded module
\* that has no main, the invocation ends Failed with a diagnostic that names
\* the missing entry point, main is not called and no file is written.
C5_MissingEntryPoint ==
  (/\ worker.last.line # 0
   /\ script_file.exists
   /\ script_file.kind = "text"
   /\ \/ ~DefinesMain[script_file]
      \/ /\ "Invoking" \in Range(worker.last.stages)
         /\ "main" \notin script_file.attrs)
  => /\ Status(worker.last) = "Failed"
     /\ MentionsMissingMain(worker.last.diagnostic)
     /\ ~worker.last.called
     /\ worker.last.files_written = 0

\* A script without 'def main(' was executed and rejected by validation.
C5_Witness ==
  /\ script_file.exists
  /\ script_file.kind = "text"
  /\ ~DefinesMain[script_file]
  /\ worker.last.line = 1577
  /\ Contains(worker.last.diagnostic, "Missing 'def main(' function")

MainIsStringParameter(mapping, arguments) ==
  mapping.main_prompt # None =>
    \E i \in 1..Len(arguments) :
      /\ arguments[i].dest = mapping.main_prompt[1]
      /\ arguments[i].arg_type = "str"

MainAndNegativeDistinct(mapping) ==
  (mapping.main_prompt # None /\ mapping.negative_prompt # None) =>
    mapping.main_prompt # mapping.negative_prompt

\* C6: every mapping the analyzer derives from a parameter list, and every
\* mapping persisted by the save-mapping action, has a main prompt that names
\* a string parameter and a negative prompt different from the main prompt.
C6_MappingInvariant ==
  /\ ret.op = "auto_detect_arguments_for_script" =>
       /\ MainIsStringParameter(ret.mapping, ret.arguments)
       /\ MainAndNegativeDistinct(ret.mapping)
  /\ ret.op = "save_prompt_mapping" => MainAndNegativeDistinct(ret.mapping)

NumericKeys == {"width", "height", "steps", "seed"}

\* The keyword a supplied keyword argument must end up under.
TargetKey(mapping, key) ==
  IF key \in NumericKeys /\ Truthy(mapping[key]) THEN mapping[key][1] ELSE key

\* C7: with a persisted mapping, get_execution_args returns the prompt text
\* under the mapped main-prompt keyword, the negative prompt only under the
\* mapped negative-prompt keyword, every supplied width/height/steps/seed
\* under its mapped keyword (its own name when unmapped) and every other
\* keyword unchanged; without one it returns text4/text5 plus the keywords.
C7_ExecutionArgs ==
  ret.op = "get_execution_args" =>
    LET loaded == LoadMapping(configs, ret.script_name).value
        args == ret.value
        kw == ret.kwargs
    IN IF loaded = None
       THEN /\ DictKeys(args) = {"text4", "text5"} \cup DictKeys(kw)
            /\ DictGet(args, "text4") = <<"str", ret.prompt_text>>
            /\ DictGet(args, "text5") = <<"str", ret.negative_prompt>>
            /\ \A i \in 1..Len(kw) : DictGet(args, kw[i][1]) = kw[i][2]
       ELSE LET m == loaded[1]
            IN /\ Truthy(m.main_prompt) =>
                    /\ m.main_prompt[1] \in DictKeys(args)
                    /\ DictGet(args, m.main_prompt[1]) = <<"str", ret.prompt_text>>
               /\ \A k \in DictKeys(args) :
                    DictGet(args, k) = <<"str", ret.negative_prompt>> =>
                      (Truthy(m.negative_prompt) /\ k = m.negative_prompt[1])
               /\ \A i \in 1..Len(kw) :
                    /\ TargetKey(m, kw[i][1]) \in DictKeys(args)
                    /\ DictGet(args, TargetKey(m, kw[i][1])) = kw[i][2]

\* C8: save_mapping followed by load_mapping for the same base name returns
\* the saved mapping, equal in all six fields (None fields stay None), and
\* what load_mapping returns for every other base name is unchanged.
C8_SaveLoadRoundTrip ==
  [][ret'.op = "save_mapping" =>
        /\ LoadMapping(configs', ret'.script_name)
             = [raised |-> FALSE, value |-> Some(ret'.mapping)]
        /\ \A n \in BaseNames \ {ret'.script_name} :
             LoadMapping(configs', n) = LoadMapping(configs, n)]_vars

\* A mapping with set and absent fields was saved while the other base name
\* has a persisted record of its own.
C8_Witness ==
  /\ ret.op = "save_mapping"
  /\ ret.mapping.main_prompt # None
  /\ ret.mapping.negative_prompt = None
  /\ \E n \in BaseNames \ {ret.script_name} :
       /\ configs[n].kind = "object"
       /\ configs[n] # configs[ret.script_name]

\* C9: load_mapping never raises; it returns None ("not found") when there is
\* no file and when the file's content is malformed.
C9_LoadNeverRaises ==
  ret.op = "load_mapping" =>
    /\ ret.raised = FALSE
    /\ configs[ret.script_name].kind \in {"absent", "malformed", "array"} =>
         ret.value = None

\* load_mapping was called on a file that is not JSON.
C9_Witness ==
  /\ ret.op = "load_mapping"
  /\ configs[ret.script_name].kind = "malformed"
  /\ ret.value = None

\* C10: analyze_script never raises; when reading the file fails it returns
\* an empty argument list and a mapping with all six fields None.
C10_AnalyzeNeverRaises ==
  ret.op = "analyze_script" =>
    /\ ret.raised = FALSE
    /\ ret.file.kind # "text" =>
         (ret.arguments = <<>> /\ ret.mapping = EmptyMapping)

\* analyze_script was called on a file that cannot be decoded.
C10_Witness ==
  /\ ret.op = "analyze_script"
  /\ ret.file.kind = "undecodable"
  /\ ret.arguments = <<>>

\* C11: once stop has been requested, and until the next start, the batch
\* thread that was running begins no further item of its batch: it does not
\* go from the head of the loop to an invocation (the invocation that was
\* in progress when stop was requested may finish).
C11_StopObserved ==
  [][(ret.op = "stop_comfyui_execution" /\ worker.pc = "loop")
       => worker'.pc # "execute"]_vars

\* C12: a step of the batch thread changes none of the state the window
\* owns: the widgets (buttons, progress bar, text box, dialogs) and the
\* two prompt lists.
C12_WorkerLeavesUiAlone ==
  [][(Alive(worker) /\ worker' # worker)
       => UNCHANGED <<generated_prompts, current_session_prompts,
                      start_execution_btn, stop_execution_btn, scan_progress,
                      messagebox, scan_results_textbox>>]_vars

\* C13: an invocation whose validation reports a blocking issue puts the
\* finding to the caller as a yes/no decision, and when the answer is to
\* proceed it goes on to load the script.
C13_ProceedOrAbort ==
  LET inv == worker.last
  IN (inv.stages # <<>> /\ ~Validation[script_file].is_valid)
       => /\ inv.decision \in {"proceed", "abort"}
          /\ inv.decision = "proceed" => "Loading" \in Range(inv.stages)

\* C14: the code a call of execute_comfyui_script executes is the content
\* the script's file has when the call loads it, also after the file was
\* replaced since an earlier call.
C14_RunsContentOnDisk ==
  \A k \in Threads : calls[k].unit # None => calls[k].unit = calls[k].source

\* The fallback of call c has saved all the images of its result.
FallbackDone(c) == c.pc = "returned" /\ c.inv.line = 1813

\* C15: a fallback that handles N images leaves N files with pairwise
\* distinct names in the fallback directory and ends Succeeded, and no step
\* replaces a file that was in the directory.
C15_FallbackWritesNewFiles ==
  [][/\ \A f \in output_dir : f \in output_dir'
     /\ \A k \in Threads :
          LET c == calls'[k]
          IN FallbackDone(c) =>
               /\ Status(c.inv) = "Succeeded"
               /\ c.inv.files_written = c.images
               /\ Len(c.saved_files) = c.images
               /\ Cardinality(Range(c.saved_files)) = c.images
               /\ \A j \in 1..c.images :
                    [name |-> c.saved_files[j], content |-> <<k, c.id, j>>]
                      \in output_dir']_vars

StageOrder == StagesToSaving

IsPrefix(s, t) == Len(s) <= Len(t) /\ SubSeq(t, 1, Len(s)) = s

\* C17: within a call the stages are entered in the order of StageOrder,
\* main is called after Validating, Loading and Patching and at most once,
\* and a call that has returned changes no more (its thread can only make
\* its next call).
C17_StageOrder ==
  [][\A k \in Threads :
       LET c == calls[k]
           d == calls'[k]
       IN IF d.id = c.id
          THEN /\ IsPrefix(c.inv.stages, d.inv.stages)
               /\ IsPrefix(d.inv.stages, StageOrder)
               /\ d.main_calls <= 1
               /\ d.main_calls > c.main_calls
                    => c.inv.stages = <<"Validating", "Loading", "Patching">>
               /\ c.pc = "returned"
                    => d = c /\ Status(c.inv) \in {"Succeeded", "SucceededNoArtifacts",
                                                    "Failed"}
          ELSE /\ c.pc \in {"none", "returned"}
               /\ d = Call(c.id + 1, "step1", d.prompt_data, d.script_name)]_vars

\* A call went through every stage, called main once and has returned.
C17_Witness ==
  \E k \in Threads :
    /\ calls[k].pc = "returned"
    /\ calls[k].inv.stages = StageOrder
    /\ calls[k].main_calls = 1
    /\ calls[k].id = MaxCalls

\* C18: a call that has returned tried the fallback if SaveImage was
\* unavailable (ImportError) or raised anything else, did not try it if
\* SaveImage saved, and reports a save failure (the returns of lines 1820
\* and 1826) only after both strategies failed.
C18_FallbackAfterNativeFailure ==
  \A k \in Threads :
    LET inv == calls[k].inv
    IN calls[k].pc = "returned" =>
         /\ inv.native \in {"ImportError", "Exception"}
              => inv.fallback \in {"saved", "failed"}
         /\ inv.native = "saved" => inv.fallback = "not tried"
         /\ inv.line \in {1820, 1826}
              => /\ Status(inv) = "SucceededNoArtifacts"
                 /\ inv.native \in {"ImportError", "Exception"}
                 /\ inv.fallback = "failed"

\* C19: the patching step leaves has_manager, _custom_nodes_imported and
\* _custom_path_added defined on the module, each name the module had keeps
\* its value, the names added are set to False and they are the only names
\* added; the module main is called on is the patched one.
C19_PatchingFrame ==
  [][\A k \in Threads :
       LET c == calls[k]
           d == calls'[k]
       IN /\ (c.pc = "patch" /\ d.pc = "main") =>
               /\ Range(PatchNames) \subseteq DOMAIN d.module
               /\ DOMAIN d.module = DOMAIN c.module \cup Range(PatchNames)
               /\ \A name \in DOMAIN c.module : d.module[name] = c.module[name]
               /\ \A name \in DOMAIN d.module \ DOMAIN c.module :
                    d.module[name] = "False"
          /\ d.main_calls > c.main_calls =>
               /\ Range(PatchNames) \subseteq DOMAIN c.module
               /\ c.inv.stages = <<"Validating", "Loading", "Patching">>
               /\ d.module = c.module]_vars

\* Patching has set has_manager on the module of an export that lacked it and
\* has left the names the export defined as they were; main is about to be
\* called.
C19_Witness ==
  \E k \in Threads :
    /\ calls[k].pc = "main"
    /\ calls[k].inv.fixes_applied = <<"has_manager">>
    /\ calls[k].module["has_manager"] = "False"
    /\ calls[k].module["_custom_nodes_imported"] = "False"
    /\ calls[k].module["main"] = "<function main>"

\* The names among the three that a sample text refers to without
\* initialising them.
Uninitialised(file) == {name \in Range(PatchNames) : file.use[name] = "referenced"}

\* C20: validate_comfyui_script returns is_valid = True exactly for the
\* texts with all four components (and for no file that is missing or
\* cannot be read); a name referenced without initialisation is named in
\* the message of a compatible script as one that will be auto-fixed, and
\* is never named among the issues of an incompatible one.
C20_ValidIffFourMarkers ==
  ret.op = "validate_comfyui_script" =>
    IF ~ret.file.exists \/ ret.file.kind # "text"
    THEN ~ret.value.is_valid
    ELSE /\ ret.value.is_valid <=> ret.file.markers = Markers
         /\ \A name \in Range(PatchNames) :
              Contains(ret.value.message, name)
                <=> (ret.value.is_valid /\ name \in Uninitialised(ret.file))
         /\ Contains(ret.value.message, "(will be auto-fixed)")
              <=> (ret.value.is_valid /\ Uninitialised(ret.file) # {})

\* A text with the four components that refers to the three names and
\* initialises none was validated.
C20_Witness ==
  /\ ret.op = "validate_comfyui_script"
  /\ ret.file.exists /\ ret.file.kind = "text"
  /\ ret.file.markers = Markers
  /\ Uninitialised(ret.file) = Range(PatchNames)
  /\ ret.value.is_valid

\* The prompts made of the posts of scan number scan.
SessionPrompts(scan) == {PromptData(Post(scan, i)) : i \in 1..MaxPosts}

\* C16: once a scan has been started, the list a batch would execute
\* (generated_prompts) holds prompts of that scan only.
C16_CurrentSessionOnly ==
  scans_started > 0 => Range(generated_prompts) \subseteq SessionPrompts(scans_started)

\* The raw parenthesis depth of an isolated call first is zero at its last
\* character.
ClosesAtEnd(full_call) ==
  /\ StartsAt(full_call, 1, AddArgument)
  /\ ClosingParen(full_call, Len(AddArgument)) = Len(full_call)

\* A default that spans several lines and holds balanced parentheses.
SpansLines(decl) ==
  decl.form = "triple" /\ Contains(decl.text, "\n") /\ Contains(decl.text, "(")

\* The value the literal of a declaration denotes (None without default=).
Denoted(decl) ==
  CASE decl.form \in {"quoted", "single", "triple"} -> <<"str", decl.text>>
    [] decl.form = "none" -> None
    [] decl.text \in {"True", "False"} -> <<"bool", decl.text>>
    [] Contains(decl.text, ".") -> <<"float", decl.text>>
    [] OTHER -> <<"int", decl.text>>

C21_Isolated ==
  ret.op = "analyze_script" =>
    \A i \in 1..Len(ret.full_calls) : ClosesAtEnd(ret.full_calls[i])

C21_RoundTrip ==
  ret.op = "analyze_script" =>
    \A i \in 1..Len(ret.decls) :
      SpansLines(ret.decls[i]) =>
        /\ i <= Len(ret.full_calls)
        /\ ret.full_calls[i] = Declare(ret.decls[i])
        /\ ParseCallText(ret.full_calls[i]) # None
        /\ ParseCallText(ret.full_calls[i])[1].name = ret.decls[i].flag
        /\ ParseCallText(ret.full_calls[i])[1].default = Denoted(ret.decls[i])

C21_OnceInOrder ==
  ret.op = "analyze_script" =>
    [i \in 1..Len(ret.arguments) |-> ret.arguments[i].name]
      = [i \in 1..Len(ret.decls) |-> ret.decls[i].flag]

\* C21: every call is isolated from its opening token through the character
\* at which the raw parenthesis depth first is zero; for a declaration whose
\* default spans several lines and holds balanced parentheses that text is
\* the declaration, and the flag and the default extracted from it are the
\* ones written; every declaration is reported once, in declaration order.
C21_IsolationRoundTrip == C21_Isolated /\ C21_RoundTrip /\ C21_OnceInOrder

\* C22: the default reported for a declaration whose default is a string
\* literal in single, double or triple quotes is the string the literal
\* denotes (stated on the scripts whose declarations are all reported).
C22_DefaultDenoted ==
  ret.op = "analyze_script" /\ C21_OnceInOrder =>
    \A i \in 1..Len(ret.decls) :
      ret.decls[i].form \in {"quoted", "single", "triple"} =>
        ret.arguments[i].default = Denoted(ret.decls[i])

\* The type a default of the given kind stands for: integer, float and
\* boolean defaults give their type, anything else gives string.
TypeOfDefault(default) ==
  IF default # None /\ default[1] \in {"int", "float", "bool"} THEN default[1]
  ELSE "str"

\* The parameters of a field: the name contains the field's word and the
\* declared default is numeric.
NumericNamed(decls, word) ==
  { LstripDash(decls[i].flag) : i \in
      {j \in 1..Len(decls) :
         /\ Contains(Lower(LstripDash(decls[j].flag)), word)
         /\ TypeOfDefault(Denoted(decls[j])) \in {"int", "float"}} }

\* C23: every reported parameter has the type of its declared default, and
\* each of the fields width, height, steps and seed that has a parameter
\* (name with the field's word, numeric type) is assigned one of them
\* (stated on the scripts whose declarations are all reported).
C23_NumericTypesAndFields ==
  ret.op = "analyze_script" /\ C21_OnceInOrder =>
    /\ \A i \in 1..Len(ret.decls) :
         ret.arguments[i].arg_type = TypeOfDefault(Denoted(ret.decls[i]))
    /\ \A word \in {"width", "height", "steps", "seed"} :
         NumericNamed(ret.decls, word) # {} =>
           /\ ret.mapping[word] # None
           /\ ret.mapping[word][1] \in NumericNamed(ret.decls, word)

\* The candidates of the prompt passes, and those the exact-name pass reads
\* as the main prompt.
Candidates(arguments) == {i \in 1..Len(arguments) : IsPromptArg(arguments[i])}

NamedMain(arg) ==
  Contains(Lower(arg.dest), "main_prompt") \/ Contains(Lower(arg.dest), "positive_prompt")

\* The candidates the score pass may choose: promptScore above 0.3 and a
\* string default longer than 20 characters.
Substantial(arguments) ==
  {i \in Candidates(arguments) :
     /\ arguments[i].score > Float(3)
     /\ IsStr(arguments[i].default)
     /\ Len(arguments[i].default[2]) > 20}

\* C24: when no candidate is named as the main prompt, main_prompt is the
\* candidate of highest promptScore among those with promptScore > 0.3 and
\* a string default longer than 20 characters (None when there is none); a
\* candidate with an empty default is not chosen, whatever its score.
C24_ScorePass ==
  ret.op = "analyze_script"
    /\ (\A i \in Candidates(ret.arguments) : ~NamedMain(ret.arguments[i])) =>
      LET arguments == ret.arguments
          ok == Substantial(arguments)
      IN IF ok = {} THEN ret.mapping.main_prompt = None
         ELSE \E i \in ok :
                /\ ret.mapping.main_prompt = Some(arguments[i].dest)
                /\ \A j \in ok : arguments[j].score <= arguments[i].score

\* C24 witness: the parameter chosen is declared after a candidate with an
\* empty default and a higher promptScore.
C24_Witness ==
  /\ ret.op = "analyze_script"
  /\ Len(ret.arguments) = 2
  /\ Candidates(ret.arguments) = {1, 2}
  /\ Substantial(ret.arguments) = {2}
  /\ ret.decls[1].form = "quoted"
  /\ ret.arguments[1].default = <<"str", "">>
  /\ ret.arguments[1].score > ret.arguments[2].score
  /\ ret.mapping.main_prompt = Some(ret.arguments[2].dest)

NamedNegative(arg) ==
  Contains(Lower(arg.dest), "negative_prompt") \/ Contains(Lower(arg.dest), "neg_prompt")

\* Candidate i comes before candidate j: higher promptScore, or the same
\* promptScore and declared earlier.
Before(arguments, i, j) ==
  \/ arguments[i].score > arguments[j].score
  \/ arguments[i].score = arguments[j].score /\ i < j

\* The candidates the negative pass may choose, given the main prompt.
LooksNegative(arguments, main_prompt) ==
  {i \in Candidates(arguments) :
     /\ Some(arguments[i].dest) # main_prompt
     /\ \/ Contains(Lower(arguments[i].dest), "negative")
        \/ arguments[i].default = <<"str", "">>
        \/ Contains(Lower(arguments[i].help_text), "negative")}

\* The script of the two declarations --text4 (120-character default, help
\* "CLIP Text Encode (Positive Prompt)") and --text5 (default "").
TwoTexts(decls) ==
  /\ Len(decls) = 2
  /\ decls[1] = [flag |-> "--text4", form |-> "quoted", text |-> Text120,
                 help |-> "CLIP Text Encode (Positive Prompt)"]
  /\ decls[2] = [flag |-> "--text5", form |-> "quoted", text |-> "", help |-> ""]
  /\ Len(Text120) = 120

\* C25: when no candidate is named as the negative prompt, negative_prompt
\* is the first candidate, other than the main prompt, whose name or help
\* text contains "negative" or whose default is the empty string (None when
\* there is none); the script of --text4 and --text5 gives main_prompt =
\* text4 and negative_prompt = text5.
C25_NegativePass ==
  ret.op = "analyze_script" =>
    /\ (\A i \in Candidates(ret.arguments) : ~NamedNegative(ret.arguments[i])) =>
         LET arguments == ret.arguments
             ok == LooksNegative(arguments, ret.mapping.main_prompt)
         IN IF ok = {} THEN ret.mapping.negative_prompt = None
            ELSE \E i \in ok :
                   /\ ret.mapping.negative_prompt = Some(arguments[i].dest)
                   /\ \A j \in ok \ {i} : Before(arguments, i, j)
    /\ TwoTexts(ret.decls) =>
         /\ ret.mapping.main_prompt = Some("text4")
         /\ ret.mapping.negative_prompt = Some("text5")

\* C25 witness: the script of --text4 and --text5 has been analysed.
C25_Witness ==
  /\ ret.op = "analyze_script"
  /\ TwoTexts(ret.decls)
  /\ ret.mapping.negative_prompt = Some("text5")

\* The parameters that qualify for a field of the mapping in the pass that
\* decides it.
Qualifying(arguments, mapping, field) ==
  LET named_main == {i \in Candidates(arguments) : NamedMain(arguments[i])}
      named_negative == {i \in Candidates(arguments) :
                           NamedNegative(arguments[i]) /\ ~NamedMain(arguments[i])}
  IN CASE field = "main_prompt" ->
            IF named_main # {} THEN named_main ELSE Substantial(arguments)
       [] field = "negative_prompt" ->
            IF named_negative # {} THEN named_negative
            ELSE LooksNegative(arguments, mapping.main_prompt)
       [] OTHER ->
            {i \in 1..Len(arguments) :
               /\ Contains(Lower(arguments[i].dest), field)
               /\ arguments[i].arg_type \in {"int", "float"}}

\* C26: a parameter is not assigned to a field when a parameter declared
\* before it qualifies for that field with the same promptScore.
C26_FirstDeclaredWins ==
  ret.op = "analyze_script" =>
    \A field \in MappingFields :
      \A i, j \in Qualifying(ret.arguments, ret.mapping, field) :
        /\ i < j
        /\ ret.arguments[i].score = ret.arguments[j].score
        /\ ret.arguments[i].dest # ret.arguments[j].dest
        => ret.mapping[field] # Some(ret.arguments[j].dest)

\* The sum of a sequence of weights, in tenths.
RECURSIVE Sum(_)
Sum(weights) == IF weights = <<>> THEN 0 ELSE Head(weights) + Sum(Tail(weights))

C27_InUnitInterval ==
  ret.op = "_score_argument" => ret.value >= Float(0) /\ ret.value <= Float(10)

C28_FailedAnalysisKeepsMapping ==
  [][ /\ ret'.op = "auto_detect_arguments_for_script"
      /\ ret'.file.kind # "text"
      /\ configs[ReplaceDotPy(selected_comfyui_script')].kind # "absent"
      => configs' = configs ]_vars

\* The batch threads that have been started and have not returned.
RunningWorkers == (IF Alive(worker) THEN 1 ELSE 0) + Len(orphans)

\* C29: at most one batch thread is running at any time.
C29_OneBatchWorker == RunningWorkers <= 1

\* The mapping load_mapping reads back for the selected script.
PersistedMapping ==
  LoadMapping(configs, ReplaceDotPy(selected_comfyui_script)).value

\* C30: after the save-mapping action of the configuration tab the mapping
\* persisted for the script holds the two selections (an empty selection as
\* none) and its width, height, steps and seed fields are not set, whatever
\* the mapping persisted before held.
C30_SaveKeepsOnlySelections ==
  ret.op = "save_prompt_mapping" =>
    /\ PersistedMapping # None
    /\ PersistedMapping[1].main_prompt = StrOrNone(main_prompt_var)
    /\ PersistedMapping[1].negative_prompt = StrOrNone(neg_prompt_var)
    /\ \A field \in {"width", "height", "steps", "seed"} :
         /\ PersistedMapping[1][field] = None
         /\ DictGet(configs[ReplaceDotPy(selected_comfyui_script)].pairs, field)[1]
              = "null"

\* The save-mapping action has overwritten a mapping whose width field was
\* set, with a main-prompt selection made.
C30_Witness ==
  /\ ret.op = "save_prompt_mapping"
  /\ ret.replaced.kind = "object"
  /\ JsonGet(ret.replaced.pairs, "width") # None
  /\ main_prompt_var # ""

====
